---- MODULE Spec2Model ----
(***************************************************************************)
(* The RAM table of the zero-knowledge VM: row construction (fill_trace),  *)
(* padding (pad_trace), extension columns (extend) and the AIR constraint  *)
(* set, modelled from src/triton-vm/src/table/ram_table.rs.                *)
(*                                                                         *)
(* Field elements.  BFieldElement is the prime field of the library        *)
(* twenty_first (modulus 2^64 - 2^32 + 1); the model keeps the arithmetic  *)
(* (addition, subtraction, multiplication, inverse_or_zero, all modulo a   *)
(* prime) and scales the modulus down to P so that the values fit the      *)
(* model checker's integers.  XFieldElement is the cubic extension         *)
(* B[x]/(x^3 - x + 1); its elements are triples <<c0, c1, c2>>.            *)
(***************************************************************************)
EXTENDS Integers, Sequences, FiniteSets, TLC

\* ------------------------------------------------------------------ bounds
\* Longest processor trace (number of VM cycles recorded in the AET).
MaxLen == 3
\* Largest number of padding rows (padded height - processor trace length).
MaxPad == 2

\* Length of the longer traces, which are drawn from a smaller domain (JumpTraces).
MaxJumpLen == 4

\* Number of worker threads of the parallel iterator in pad_trace.
NumWorkers == 2
\* Largest clock of a row handed to the constraint circuits.
MaxClk == 2

\* ------------------------------------------------------- BFieldElement
P == 13

BField == 0 .. (P - 1)

BAdd(a, b) == (a + b) % P
BSub(a, b) == (a - b + P) % P
BMul(a, b) == (a * b) % P
BNeg(a) == (P - a) % P

\* Inverse::inverse_or_zero: the multiplicative inverse, and 0 for 0.
BInverseTable == [a \in BField |-> IF a = 0 THEN 0 ELSE CHOOSE b \in BField : (a * b) % P = 1]
inverse_or_zero(a) == BInverseTable[a]

\* ------------------------------------------------------- XFieldElement
XZero == <<0, 0, 0>>
XOne == <<1, 0, 0>>
\* BFieldElement::lift: the embedding of the base field.
lift(b) == <<b, 0, 0>>
XAdd(a, b) == <<BAdd(a[1], b[1]), BAdd(a[2], b[2]), BAdd(a[3], b[3])>>
XSub(a, b) == <<BSub(a[1], b[1]), BSub(a[2], b[2]), BSub(a[3], b[3])>>
\* Multiplication modulo x^3 - x + 1 (x^3 = x - 1, x^4 = x^2 - x).
XMul(a, b) ==
  LET c0 == a[1] * b[1]
      c1 == a[1] * b[2] + a[2] * b[1]
      c2 == a[1] * b[3] + a[2] * b[2] + a[3] * b[1]
      c3 == a[2] * b[3] + a[3] * b[2]
      c4 == a[3] * b[3]
  IN  <<(c0 - c3 + P * P * 2) % P, (c1 + c3 - c4 + P * P * 2) % P, (c2 + c4) % P>>

\* ------------------------------------------------------------ Polynomial
\* A polynomial is the sequence of its coefficients, lowest degree first.
\* The coefficients without the trailing zeros.
PolyNorm(p) ==
  LET nonzero == {i \in 1 .. Len(p) : p[i] # 0}
  IN  IF nonzero = {} THEN <<>>
      ELSE SubSeq(p, 1, CHOOSE i \in nonzero : \A j \in nonzero : j <= i)

\* Polynomial::degree: -1 for the zero polynomial.
degree(p) == Len(PolyNorm(p)) - 1
is_zero(p) == PolyNorm(p) = <<>>
is_one(p) == PolyNorm(p) = <<1>>
Coef(p, i) == IF i + 1 <= Len(p) THEN p[i + 1] ELSE 0
leading_coefficient(p) == LET q == PolyNorm(p) IN q[Len(q)]

PolyMax(a, b) == IF a >= b THEN a ELSE b
PolyAdd(a, b) == PolyNorm([i \in 1 .. PolyMax(Len(a), Len(b)) |-> BAdd(Coef(a, i - 1), Coef(b, i - 1))])
PolySub(a, b) == PolyNorm([i \in 1 .. PolyMax(Len(a), Len(b)) |-> BSub(Coef(a, i - 1), Coef(b, i - 1))])
scalar_mul(p, c) == PolyNorm([i \in 1 .. Len(p) |-> BMul(p[i], c)])

\* The coefficient of x^k of a * b.
ConvSum(a, b, k) ==
  LET sum[i \in 0 .. (k + 1)] ==
        IF i > k THEN 0 ELSE (BMul(Coef(a, i), Coef(b, k - i)) + sum[i + 1]) % P
  IN  sum[0]

PolyMul(a, b) ==
  IF is_zero(a) \/ is_zero(b) THEN <<>>
  ELSE PolyNorm([k \in 1 .. (Len(a) + Len(b) - 1) |-> ConvSum(a, b, k - 1)])

\* c * x^s
Monomial(c, s) == [i \in 1 .. (s + 1) |-> IF i = s + 1 THEN c ELSE 0]

\* Polynomial::divide: quotient and remainder of long division by d # 0.
\* One step of the long division of qr = <<quotient, remainder>> by d.
DivideStep(qr, d) ==
  IF degree(qr[2]) < degree(d) THEN qr
  ELSE LET m == Monomial(BMul(leading_coefficient(qr[2]), inverse_or_zero(leading_coefficient(d))),
                         degree(qr[2]) - degree(d))
       IN  <<PolyAdd(qr[1], m), PolySub(qr[2], PolyMul(m, d))>>

divide(x, d) ==
  LET qr[i \in 0 .. Len(x)] ==
        IF i = 0 THEN <<<<>>, PolyNorm(x)>> ELSE DivideStep(qr[i - 1], PolyNorm(d))
  IN  qr[Len(x)]

\* Polynomial::formal_derivative
formal_derivative(p) ==
  IF Len(p) <= 1 THEN <<>>
  ELSE PolyNorm([i \in 1 .. (Len(p) - 1) |-> BMul(i % P, p[i + 1])])

\* Polynomial::xgcd: extended Euclid, the result scaled so that the gcd is monic.
\* One iteration of the loop `while !y.is_zero()`.
XgcdStep(st) ==
  IF is_zero(st.y) THEN st
  ELSE LET qr == divide(st.x, st.y)
       IN  [x |-> st.y, y |-> qr[2],
            a_factor |-> st.a1, a1 |-> PolySub(st.a_factor, PolyMul(qr[1], st.a1)),
            b_factor |-> st.b1, b1 |-> PolySub(st.b_factor, PolyMul(qr[1], st.b1))]

\* The scaling of the result by the inverse of the gcd's leading coefficient.
XgcdNormalize(x, a_factor, b_factor) ==
  LET scale == inverse_or_zero(leading_coefficient(x))
  IN  <<scalar_mul(x, scale), scalar_mul(a_factor, scale), scalar_mul(b_factor, scale)>>

xgcd(x, y) ==
  LET st[i \in 0 .. (Len(y) + 1)] ==
        IF i = 0
        THEN [x |-> PolyNorm(x), y |-> PolyNorm(y),
              a_factor |-> <<1>>, a1 |-> <<>>, b_factor |-> <<>>, b1 |-> <<1>>]
        ELSE XgcdStep(st[i - 1])
      r == st[Len(y) + 1]
  IN  XgcdNormalize(r.x, r.a_factor, r.b_factor)

\* ------------------------------------------------------------ data model
\* The memory addresses and memory values a cycle may record.
RampDomain == {0, 1, 3}
RamvDomain == {0, 2}

\* One row of aet.processor_matrix, restricted to the registers the RAM table reads.
ProcessorRow(clk, ramp, ramv) == [CLK |-> clk, RAMP |-> ramp, RAMV |-> ramv]

\* The processor traces: cycle i (from 0) has clock i.
ProcessorTraces ==
  UNION {{[i \in 1 .. n |-> ProcessorRow(i - 1, f[i][1], f[i][2])] :
            f \in [1 .. n -> RampDomain \X RamvDomain]} : n \in 1 .. MaxLen}

\* Longer processor traces over two addresses and the value 0: long enough for one
\* address to be revisited after more than two cycles.
JumpTraces ==
  UNION {{[i \in 1 .. n |-> ProcessorRow(i - 1, f[i], 0)] : f \in [1 .. n -> {0, 1}]} :
           n \in (MaxLen + 1) .. MaxJumpLen}

\* A row of the base table as allocated: every column zero.
ZeroRow ==
  [CLK |-> 0, RAMP |-> 0, RAMV |-> 0, InverseOfRampDifference |-> 0,
   BezoutCoefficientPolynomialCoefficient0 |-> 0,
   BezoutCoefficientPolynomialCoefficient1 |-> 0,
   InverseOfClkDiffMinusOne |-> 0]

\* The base-table columns that fill_trace addresses as usize::from(BezoutCoefficient0)
\* and usize::from(BezoutCoefficient1).  The column enums are defined outside the
\* files modelled here; following section 4.2 of the specification the pair is stored
\* in the row's Bezout-coefficient-polynomial-coefficient columns.
BezoutCoefficient0Column == "BezoutCoefficientPolynomialCoefficient0"
BezoutCoefficient1Column == "BezoutCoefficientPolynomialCoefficient1"

VARIABLES
  pc,                     \* "start", "filled", "padded", "padded2", "extended",
                          \* "fill_aborted", "pad_aborted", "unfilled_padded",
                          \* "unfilled_pad_aborted"; "idle" while simulate is modelled
  aet,                    \* aet.processor_matrix
  ram_table,              \* the base table, padded_height rows
  natural_length,         \* the natural length handed to pad_trace
  clock_jump_differences, \* the list fill_trace returns
  challenges,             \* RamTableChallenges handed to extend
  extension_matrix,       \* the extension rows extend computes
  diagnostic              \* the message of the assertion that aborted, or ""

ram_vars ==
  <<pc, aet, ram_table, natural_length, clock_jump_differences, challenges,
    extension_matrix, diagnostic>>

Min(S) == CHOOSE x \in S : \A y \in S : x <= y
\* The orders in which a HashMap with key set S may iterate.
IterationOrders(S) == {f \in [1 .. Cardinality(S) -> S] : \A i, j \in DOMAIN f : f[i] = f[j] => i = j}

\* ------------------------------------------------------------ fill_trace
\* Variant: the HashMap keyed by the CLK column instead of RAMP.
pre_processed_ram_table_keyed_by_clk(trace) ==
  [clk \in {trace[i].CLK : i \in DOMAIN trace} |->
     SelectSeq(trace, LAMBDA row : row.CLK = clk)]

\* The HashMap keyed by RAMP; each entry keeps the processor's rows in CLK order.
pre_processed_ram_table(trace) ==
  [ramp \in {trace[i].RAMP : i \in DOMAIN trace} |->
     SelectSeq(trace, LAMBDA row : row.RAMP = ramp)]

\* Variant: each entry's rows laid out newest first.
MoveRowsNewestFirst(groups, order) ==
  LET Reversed(q) == [i \in 1 .. Len(q) |-> q[Len(q) + 1 - i]]
      rows[k \in 0 .. Len(order)] ==
        IF k = 0 THEN <<>> ELSE rows[k - 1] \o Reversed(groups[order[k]])
  IN  rows[Len(order)]

\* The rows in the order the HashMap's iterator yields its entries.
MoveRows(groups, order) ==
  LET rows[k \in 0 .. Len(order)] ==
        IF k = 0 THEN <<>> ELSE rows[k - 1] \o groups[order[k]]
  IN  rows[Len(order)]

\* The fold building the polynomial with the RAMPs as roots: ... * (x - ramp).
polynomial_with_ramps_as_roots(order) ==
  LET acc[k \in 0 .. Len(order)] ==
        IF k = 0 THEN <<1>> ELSE PolyMul(acc[k - 1], <<BNeg(order[k]), 1>>)
  IN  acc[Len(order)]

\* Vec::resize(num_of_ramps, zero): truncated or zero-padded to exactly n entries.
Resize(coefficients, n) == [i \in 1 .. n |-> Coef(coefficients, i - 1)]
\* Variant: the coefficient taken from the front of the vector.
Oldest(q) == q[1]
\* Vec::pop: the last element and the rest.
Last(q) == q[Len(q)]
Front(q) == SubSeq(q, 1, Len(q) - 1)

\* The condition under which the second pass records a clock jump difference.
RecordsClockJump(ramp_diff, clk_diff) == ramp_diff # 0 /\ clk_diff > 1

\* Variant: the inverse taken of the clock difference, not of the difference minus 1.
SecondPassStepInvertingClkDiff(st, row_idx) ==
  IF st.diagnostic # "" THEN st
  ELSE
    LET curr_row == st.table[row_idx + 1]
        next_row == st.table[row_idx + 2]
        clk_diff == BSub(next_row.CLK, curr_row.CLK)
        clk_diff_minus_1 == BSub(clk_diff, 1)
        ramp_diff == BSub(next_row.RAMP, curr_row.RAMP)
        pops == ramp_diff # 0
        new_curr == [curr_row EXCEPT !.InverseOfClkDiffMinusOne = inverse_or_zero(clk_diff),
                                     !.InverseOfRampDifference = inverse_or_zero(ramp_diff)]
    IN  IF pops /\ (st.q0 = <<>> \/ st.q1 = <<>>)
        THEN [st EXCEPT !.diagnostic = "called Option::unwrap on a None value"]
        ELSE
          LET bcpc_0 == IF pops THEN Last(st.q0) ELSE st.current_bcpc_0
              bcpc_1 == IF pops THEN Last(st.q1) ELSE st.current_bcpc_1
              new_next == [next_row EXCEPT ![BezoutCoefficient0Column] = bcpc_0,
                                           ![BezoutCoefficient1Column] = bcpc_1]
          IN  [table |-> [st.table EXCEPT ![row_idx + 1] = new_curr, ![row_idx + 2] = new_next],
               q0 |-> IF pops THEN Front(st.q0) ELSE st.q0,
               q1 |-> IF pops THEN Front(st.q1) ELSE st.q1,
               current_bcpc_0 |-> bcpc_0,
               current_bcpc_1 |-> bcpc_1,
               differences |-> IF RecordsClockJump(ramp_diff, clk_diff)
                               THEN Append(st.differences, clk_diff) ELSE st.differences,
               diagnostic |-> ""]

\* One iteration of the second pass, on the row pair (row_idx, row_idx + 1), row_idx
\* from 0.  st: table, queues q0 and q1, current_bcpc_0 and _1, the collected differences.
SecondPassStep(st, row_idx) ==
  IF st.diagnostic # "" THEN st
  ELSE
    LET curr_row == st.table[row_idx + 1]
        next_row == st.table[row_idx + 2]
        clk_diff == BSub(next_row.CLK, curr_row.CLK)
        clk_diff_minus_1 == BSub(clk_diff, 1)
        ramp_diff == BSub(next_row.RAMP, curr_row.RAMP)
        pops == ramp_diff # 0
        new_curr == [curr_row EXCEPT !.InverseOfClkDiffMinusOne = inverse_or_zero(clk_diff_minus_1),
                                     !.InverseOfRampDifference = inverse_or_zero(ramp_diff)]
    IN  IF pops /\ (st.q0 = <<>> \/ st.q1 = <<>>)
        THEN [st EXCEPT !.diagnostic = "called Option::unwrap on a None value"]
        ELSE
          LET bcpc_0 == IF pops THEN Last(st.q0) ELSE st.current_bcpc_0
              bcpc_1 == IF pops THEN Last(st.q1) ELSE st.current_bcpc_1
              new_next == [next_row EXCEPT ![BezoutCoefficient0Column] = bcpc_0,
                                           ![BezoutCoefficient1Column] = bcpc_1]
          IN  [table |-> [st.table EXCEPT ![row_idx + 1] = new_curr, ![row_idx + 2] = new_next],
               q0 |-> IF pops THEN Front(st.q0) ELSE st.q0,
               q1 |-> IF pops THEN Front(st.q1) ELSE st.q1,
               current_bcpc_0 |-> bcpc_0,
               current_bcpc_1 |-> bcpc_1,
               differences |-> IF RecordsClockJump(ramp_diff, clk_diff)
                               THEN Append(st.differences, clk_diff) ELSE st.differences,
               diagnostic |-> ""]

\* The loop `for row_idx in 0..aet.processor_matrix.len() - 1`.
SecondPass(initial, n) ==
  LET st[k \in 0 .. (n - 1)] == IF k = 0 THEN initial ELSE SecondPassStep(st[k - 1], k - 1)
  IN  st[n - 1]

\* Variant: the first pass writing the RAMV into the RAMP column and the RAMP into RAMV.
LayOutSwappingColumns(tbl, rows, bcpc_0, bcpc_1) ==
  [i \in 1 .. Len(tbl) |->
     IF i <= Len(rows)
     THEN [(IF i = 1 THEN [tbl[1] EXCEPT ![BezoutCoefficient0Column] = bcpc_0,
                                         ![BezoutCoefficient1Column] = bcpc_1]
            ELSE tbl[i])
           EXCEPT !.CLK = rows[i].CLK, !.RAMP = rows[i].RAMV, !.RAMV = rows[i].RAMP]
     ELSE tbl[i]]

\* The first pass: the rows moved into the table as contiguous regions of RAMP values,
\* and the first coefficient pair written into row 0.
LayOut(tbl, rows, bcpc_0, bcpc_1) ==
  [i \in 1 .. Len(tbl) |->
     IF i <= Len(rows)
     THEN [(IF i = 1 THEN [tbl[1] EXCEPT ![BezoutCoefficient0Column] = bcpc_0,
                                         ![BezoutCoefficient1Column] = bcpc_1]
            ELSE tbl[i])
           EXCEPT !.CLK = rows[i].CLK, !.RAMP = rows[i].RAMP, !.RAMV = rows[i].RAMV]
     ELSE tbl[i]]

FillFailed(tbl, msg) == [table |-> tbl, differences |-> <<>>, diagnostic |-> msg]

\* The assertions after the second pass, and the value returned.
FillResult(tbl, st) ==
  IF st.diagnostic # "" THEN FillFailed(tbl, st.diagnostic)
  ELSE IF st.q0 # <<>> \/ st.q1 # <<>>
  THEN FillFailed(tbl, "assertion failed: 0 == bezout_coefficient_polynomial_coefficients.len()")
  ELSE [table |-> st.table, differences |-> st.differences, diagnostic |-> ""]

\* fill_trace from the popping of the first coefficient pair on; q0 and q1 are the
\* resized coefficient vectors, rows the rows in the HashMap's iteration order.
FillRows(tbl, rows, q0, q1, n) ==
  IF Len(rows) # n
  THEN FillFailed(tbl, "assertion failed: ram_table_row == processor_matrix.len()")
  ELSE FillResult(tbl,
         SecondPass([table |-> LayOut(tbl, rows, Last(q0), Last(q1)),
                     q0 |-> Front(q0), q1 |-> Front(q1),
                     current_bcpc_0 |-> Last(q0), current_bcpc_1 |-> Last(q1),
                     differences |-> <<>>, diagnostic |-> ""], n))

\* The assertions on the result <<gcd, bezout_0, bezout_1>> of xgcd, and the rest.
FillWithBezout(tbl, trace, order, num_of_ramps, res) ==
  IF ~is_one(res[1]) THEN FillFailed(tbl, "Each RAMP value must occur at most once.")
  ELSE IF ~(degree(res[2]) < num_of_ramps)
  THEN FillFailed(tbl, "The Bezout coefficient 0 must be of degree at most num_of_ramps - 1.")
  ELSE IF ~(degree(res[3]) <= num_of_ramps)
  THEN FillFailed(tbl, "The Bezout coefficient 1 must be of degree at most num_of_ramps.")
  ELSE FillRows(tbl, MoveRows(pre_processed_ram_table(trace), order),
                Resize(res[2], num_of_ramps), Resize(res[3], num_of_ramps), Len(trace))

\* Polynomial::xgcd of the polynomial and its formal derivative.
BezoutRelation(polynomial) == xgcd(polynomial, formal_derivative(polynomial))

\* RamTable::fill_trace on table tbl and processor trace `trace`, the HashMap
\* iterating its keys in the order `order`.  Returns the table, the returned list
\* and the diagnostic of a failed assertion ("" when none failed).
fill_trace(tbl, trace, order) ==
  FillWithBezout(tbl, trace, order, Cardinality(DOMAIN pre_processed_ram_table(trace)),
                 BezoutRelation(polynomial_with_ramps_as_roots(order)))

\* ------------------------------------------------------------- pad_trace
Row(tbl, idx) == tbl[idx + 1]

\* The rows [from, from + Len(rows)) of tbl replaced by rows (indices from 0).
WriteRows(tbl, from, rows) ==
  [i \in 1 .. Len(tbl) |->
     IF from + 1 <= i /\ i <= from + Len(rows) THEN rows[i - from] ELSE tbl[i]]

\* Variant: the rows below the row with the highest CLK left where they are.
MoveToEndSkipped(tbl, source_start, source_end, dest_start) == tbl

\* Variant: the rows moved to the end in reverse order.
MoveToEndReversed(tbl, source_start, source_end, dest_start) ==
  IF source_end - source_start > 0
  THEN WriteRows(tbl, dest_start,
                 [k \in 1 .. (source_end - source_start) |-> tbl[source_end + 1 - k]])
  ELSE tbl

\* All rows below the row with the highest CLK moved to the end of the table.
MoveToEnd(tbl, source_start, source_end, dest_start) ==
  IF source_end - source_start > 0
  THEN WriteRows(tbl, dest_start, SubSeq(tbl, source_start + 1, source_end))
  ELSE tbl

\* The padding row: the last row before the gap, its two inverse columns zeroed.
PaddingRowTemplate(row) ==
  [row EXCEPT !.InverseOfRampDifference = 0, !.InverseOfClkDiffMinusOne = 0]

\* Variant: the padding rows keep the template's CLK.
PaddingRowsWithoutClock(padding_row_template, processor_table_len, num_padding_rows) ==
  [k \in 1 .. num_padding_rows |-> padding_row_template]

\* Variant: the padding rows' CLK counting on from processor_table_len - 1.
PaddingRowsFromMaxClk(padding_row_template, processor_table_len, num_padding_rows) ==
  [k \in 1 .. num_padding_rows |->
     [padding_row_template EXCEPT !.CLK = (processor_table_len + k - 2) % P]]

\* The padding section: copies of the template, CLK counting on from processor_table_len.
PaddingRows(padding_row_template, processor_table_len, num_padding_rows) ==
  [k \in 1 .. num_padding_rows |->
     [padding_row_template EXCEPT !.CLK = (processor_table_len + k - 1) % P]]

\* The gap filled with the padding rows.
FillPadding(tbl, max_clk_before_padding_row_idx, processor_table_len, num_padding_rows) ==
  WriteRows(tbl, max_clk_before_padding_row_idx + 1,
            PaddingRows(PaddingRowTemplate(Row(tbl, max_clk_before_padding_row_idx)),
                        processor_table_len, num_padding_rows))

\* Variant: the row before the padding section keeps its inverse columns.
UpperBoundarySkipped(tbl, max_clk_before_padding_row_idx) == tbl

\* The two inverse columns of the row before the padding section set to zero.
UpperBoundary(tbl, max_clk_before_padding_row_idx) ==
  [tbl EXCEPT ![max_clk_before_padding_row_idx + 1] =
     [@ EXCEPT !.InverseOfRampDifference = 0, !.InverseOfClkDiffMinusOne = 0]]

\* Variant: no fix-up of the last row of the padding section.
LowerBoundarySkipped(tbl, num_rows_to_move, rows_to_move_dest_section_start, ramp_difference_inverse) ==
  tbl

\* The fix-up of the last row of the padding section, when rows were moved.
LowerBoundary(tbl, num_rows_to_move, rows_to_move_dest_section_start, ramp_difference_inverse) ==
  IF num_rows_to_move > 0 /\ rows_to_move_dest_section_start > 0
  THEN
    LET max_clk_after_padding == Len(tbl) - 1
        clk_diff_minus_one_at_padding_section_lower_boundary ==
          BSub(BSub(Row(tbl, rows_to_move_dest_section_start).CLK, max_clk_after_padding % P), 1)
        last_row_in_padding_section_idx == rows_to_move_dest_section_start - 1
    IN  [tbl EXCEPT ![last_row_in_padding_section_idx + 1] =
           [@ EXCEPT !.InverseOfRampDifference = ramp_difference_inverse,
                     !.InverseOfClkDiffMinusOne =
                       inverse_or_zero(clk_diff_minus_one_at_padding_section_lower_boundary)]]
  ELSE tbl

\* pad_trace once the row with the highest CLK is found.
PadAround(tbl, processor_table_len, max_clk_before_padding_row_idx) ==
  LET padded_height == Len(tbl)
      num_padding_rows == padded_height - processor_table_len
      rows_to_move_source_section_start == max_clk_before_padding_row_idx + 1
      rows_to_move_source_section_end == processor_table_len
      num_rows_to_move == rows_to_move_source_section_end - rows_to_move_source_section_start
      rows_to_move_dest_section_start == rows_to_move_source_section_start + num_padding_rows
      rows_to_move_dest_section_end == rows_to_move_dest_section_start + num_rows_to_move
  IN  IF num_rows_to_move < 0
      THEN [table |-> tbl, diagnostic |-> "attempt to subtract with overflow"]
      ELSE IF padded_height # rows_to_move_dest_section_end
      THEN [table |-> tbl,
            diagnostic |-> "assertion failed: padded_height == rows_to_move_dest_section_end"]
      ELSE [table |->
              LowerBoundary(
                UpperBoundary(
                  FillPadding(
                    MoveToEnd(tbl, rows_to_move_source_section_start,
                              rows_to_move_source_section_end, rows_to_move_dest_section_start),
                    max_clk_before_padding_row_idx, processor_table_len, num_padding_rows),
                  max_clk_before_padding_row_idx),
                num_rows_to_move, rows_to_move_dest_section_start,
                Row(tbl, max_clk_before_padding_row_idx).InverseOfRampDifference),
            diagnostic |-> ""]

\* The indices of the rows whose CLK equals max_clk_before_padding.
RowsWithClk(tbl, max_clk_before_padding) ==
  {idx \in 0 .. (Len(tbl) - 1) : Row(tbl, idx).CLK = max_clk_before_padding}

\* Variant: pad_trace without the assertion on processor_table_len.
pad_trace_without_length_assertion(tbl, processor_table_len) ==
  IF Len(tbl) - processor_table_len < 0 \/ processor_table_len - 1 < 0
  THEN [table |-> tbl, diagnostic |-> "attempt to subtract with overflow"]
  ELSE IF RowsWithClk(tbl, processor_table_len - 1) = {}
  THEN [table |-> tbl,
        diagnostic |-> "Ram Table must contain row with clock cycle equal to max cycle."]
  ELSE PadAround(tbl, processor_table_len, Min(RowsWithClk(tbl, processor_table_len - 1)))

\* RamTable::pad_trace.  Returns the table and the diagnostic of a failed assertion.
pad_trace(tbl, processor_table_len) ==
  IF ~(processor_table_len > 0)
  THEN [table |-> tbl, diagnostic |-> "Processor Table must have at least 1 row."]
  ELSE IF Len(tbl) - processor_table_len < 0
  THEN [table |-> tbl, diagnostic |-> "attempt to subtract with overflow"]
  ELSE IF RowsWithClk(tbl, processor_table_len - 1) = {}
  THEN [table |-> tbl,
        diagnostic |-> "Ram Table must contain row with clock cycle equal to max cycle."]
  ELSE PadAround(tbl, processor_table_len, Min(RowsWithClk(tbl, processor_table_len - 1)))

\* --------------------------------------- pad_trace, the parallel region
\* pad_trace in three steps: the statements before the parallel iterator (lines
\* 161-207), one closure call of the parallel iterator per step (208-211), and the
\* statements after it (214-244).  The parallel iterator over the rows of the
\* padding section hands every row to one worker, once.
VARIABLES
  pad_locals,         \* the local variables of pad_trace the later steps read
  unvisited,          \* the rows (from 0) of padding_section not yet handed to a worker
  writes,             \* per row (from 0): the workers that wrote it, in order
  table_before_pad    \* the table pad_trace was called on

pad_vars == <<pad_locals, unvisited, writes, table_before_pad>>

Workers == 1 .. NumWorkers

NoPadLocals ==
  [max_clk_before_padding_row_idx |-> 0, num_rows_to_move |-> 0,
   rows_to_move_dest_section_start |-> 0, padding_section_start |-> 0,
   padding_section_end |-> 0, ramp_difference_inverse |-> 0,
   padding_row_template |-> ZeroRow]

PadIdle ==
  /\ pad_locals = NoPadLocals
  /\ unvisited = {}
  /\ writes = <<>>
  /\ table_before_pad = <<>>

\* Variant: the slice starting at the row with the highest CLK.
PaddingSectionFromMaxClkRow(padding_section_start, padding_section_end) ==
  (padding_section_start - 1) .. (padding_section_end - 1)

\* The rows (from 0) of the slice padding_section_start..padding_section_end.
PaddingSection(padding_section_start, padding_section_end) ==
  padding_section_start .. (padding_section_end - 1)

\* The local variables set up before the parallel iterator.
PadLocals(tbl, processor_table_len, max_clk_before_padding_row_idx) ==
  LET num_padding_rows == Len(tbl) - processor_table_len
      rows_to_move_source_section_start == max_clk_before_padding_row_idx + 1
      padding_section_start == rows_to_move_source_section_start
  IN  [max_clk_before_padding_row_idx |-> max_clk_before_padding_row_idx,
       num_rows_to_move |-> processor_table_len - rows_to_move_source_section_start,
       rows_to_move_dest_section_start |-> rows_to_move_source_section_start + num_padding_rows,
       padding_section_start |-> padding_section_start,
       padding_section_end |-> padding_section_start + num_padding_rows,
       ramp_difference_inverse |-> Row(tbl, max_clk_before_padding_row_idx).InverseOfRampDifference,
       padding_row_template |-> PaddingRowTemplate(Row(tbl, max_clk_before_padding_row_idx))]

\* The closure of for_each on one row: a clone of the template moved into the row.
MoveTemplateInto(tbl, idx, padding_row_template) ==
  [tbl EXCEPT ![idx + 1] = padding_row_template]

\* new_clk_values moved into the CLK column of the padding section.
MoveNewClkValues(tbl, processor_table_len, padding_section_start, padding_section_end) ==
  [i \in 1 .. Len(tbl) |->
     IF padding_section_start + 1 <= i /\ i <= padding_section_end
     THEN [tbl[i] EXCEPT !.CLK = (processor_table_len + (i - 1 - padding_section_start)) % P]
     ELSE tbl[i]]

\* ---------------------------------------------------------------- extend
\* PermArg::default_initial(): the initial value of a running product.
PermArgDefaultInitial == XOne

\* The rows extend iterates over (`fake_data` in the source): per section 4.4 of the
\* specification, the rows of the padded base table.
fake_data(tbl) == tbl

\* The values the challenges are drawn from.
BezoutIndeterminates == {XZero, lift(3), <<5, 1, 0>>, <<3, 7, 11>>}
OtherChallenges ==
  { [processor_perm_indeterminate |-> <<4, 0, 2>>, clk_weight |-> <<2, 1, 0>>,
     ramv_weight |-> <<7, 0, 0>>, ramp_weight |-> <<1, 0, 5>>,
     all_clock_jump_differences_multi_perm_indeterminate |-> <<6, 3, 0>>],
    [processor_perm_indeterminate |-> lift(2), clk_weight |-> lift(1),
     ramv_weight |-> lift(1), ramp_weight |-> lift(1),
     all_clock_jump_differences_multi_perm_indeterminate |-> lift(2)] }
RamTableChallenges ==
  { [bezout_relation_indeterminate |-> b,
     processor_perm_indeterminate |-> o.processor_perm_indeterminate,
     clk_weight |-> o.clk_weight, ramv_weight |-> o.ramv_weight,
     ramp_weight |-> o.ramp_weight,
     all_clock_jump_differences_multi_perm_indeterminate |->
       o.all_clock_jump_differences_multi_perm_indeterminate] :
     b \in BezoutIndeterminates, o \in OtherChallenges }

\* The challenges before the caller has handed any in.
NoChallenges == [bezout_relation_indeterminate |-> XZero]

\* Variant: the running Bezout coefficient 1 started at zero.
ExtendInitialWithoutCoefficient(data, ch) ==
  [running_product_for_perm_arg |-> PermArgDefaultInitial,
   all_clock_jump_differences_running_product |-> PermArgDefaultInitial,
   running_product_of_ramp |-> XSub(ch.bezout_relation_indeterminate, lift(data[1].RAMP)),
   formal_derivative |-> XOne,
   bezout_coefficient_0 |-> XZero,
   bezout_coefficient_1 |-> XZero,
   extension_matrix |-> <<>>]

\* The running values before the first row.
ExtendInitial(data, ch) ==
  [running_product_for_perm_arg |-> PermArgDefaultInitial,
   all_clock_jump_differences_running_product |-> PermArgDefaultInitial,
   running_product_of_ramp |-> XSub(ch.bezout_relation_indeterminate, lift(data[1].RAMP)),
   formal_derivative |-> XOne,
   bezout_coefficient_0 |-> XZero,
   bezout_coefficient_1 |-> lift(data[1].BezoutCoefficientPolynomialCoefficient1),
   extension_matrix |-> <<>>]

\* Variant: the formal derivative updated without adding the running product.
RampChangedDerivativeWithoutProduct(st, row, ch) ==
  LET ramp == lift(row.RAMP)
      bcpc0 == lift(row.BezoutCoefficientPolynomialCoefficient0)
      bcpc1 == lift(row.BezoutCoefficientPolynomialCoefficient1)
      bezout_challenge == ch.bezout_relation_indeterminate
  IN  [st EXCEPT
         !.formal_derivative = XMul(XSub(bezout_challenge, ramp), st.formal_derivative),
         !.running_product_of_ramp = XMul(st.running_product_of_ramp, XSub(bezout_challenge, ramp)),
         !.bezout_coefficient_0 = XAdd(XMul(st.bezout_coefficient_0, bezout_challenge), bcpc0),
         !.bezout_coefficient_1 = XAdd(XMul(st.bezout_coefficient_1, bezout_challenge), bcpc1)]

\* Variant: the formal derivative computed from the already updated running product.
RampChangedProductFirst(st, row, ch) ==
  LET ramp == lift(row.RAMP)
      bcpc0 == lift(row.BezoutCoefficientPolynomialCoefficient0)
      bcpc1 == lift(row.BezoutCoefficientPolynomialCoefficient1)
      bezout_challenge == ch.bezout_relation_indeterminate
      running_product_of_ramp == XMul(st.running_product_of_ramp, XSub(bezout_challenge, ramp))
  IN  [st EXCEPT
         !.formal_derivative =
            XAdd(XMul(XSub(bezout_challenge, ramp), st.formal_derivative),
                 running_product_of_ramp),
         !.running_product_of_ramp = running_product_of_ramp,
         !.bezout_coefficient_0 = XAdd(XMul(st.bezout_coefficient_0, bezout_challenge), bcpc0),
         !.bezout_coefficient_1 = XAdd(XMul(st.bezout_coefficient_1, bezout_challenge), bcpc1)]

\* The branch taken when the RAMP differs from the previous row's.
RampChanged(st, row, ch) ==
  LET ramp == lift(row.RAMP)
      bcpc0 == lift(row.BezoutCoefficientPolynomialCoefficient0)
      bcpc1 == lift(row.BezoutCoefficientPolynomialCoefficient1)
      bezout_challenge == ch.bezout_relation_indeterminate
  IN  [st EXCEPT
         !.formal_derivative =
            XAdd(XMul(XSub(bezout_challenge, ramp), st.formal_derivative),
                 st.running_product_of_ramp),
         !.running_product_of_ramp = XMul(st.running_product_of_ramp, XSub(bezout_challenge, ramp)),
         !.bezout_coefficient_0 = XAdd(XMul(st.bezout_coefficient_0, bezout_challenge), bcpc0),
         !.bezout_coefficient_1 = XAdd(XMul(st.bezout_coefficient_1, bezout_challenge), bcpc1)]

\* Variant: every clock difference folded in, a difference of 1 included.
RampUnchangedFoldingEveryDifference(st, prow, row, ch) ==
  LET clock_jump_difference == lift(BSub(row.CLK, prow.CLK))
  IN  [st EXCEPT !.all_clock_jump_differences_running_product =
              XMul(@, XSub(ch.all_clock_jump_differences_multi_perm_indeterminate,
                           clock_jump_difference))]

\* The branch taken when the RAMP equals the previous row's.
RampUnchanged(st, prow, row, ch) ==
  LET clock_jump_difference == lift(BSub(row.CLK, prow.CLK))
  IN  IF clock_jump_difference # XOne
      THEN [st EXCEPT !.all_clock_jump_differences_running_product =
              XMul(@, XSub(ch.all_clock_jump_differences_multi_perm_indeterminate,
                           clock_jump_difference))]
      ELSE st

\* The running values after the branch on previous_row.
AfterBranch(st, data, i, ch) ==
  IF i = 1 THEN st
  ELSE IF data[i - 1].RAMP # data[i].RAMP THEN RampChanged(st, data[i], ch)
  ELSE RampUnchanged(st, data[i - 1], data[i], ch)

\* Variant: the row receives the cross-table running product of before its own factor.
PushRowBeforeProduct(st, row, ch) ==
  LET compressed_row_for_permutation_argument ==
        XAdd(XAdd(XMul(lift(row.CLK), ch.clk_weight), XMul(lift(row.RAMP), ch.ramp_weight)),
             XMul(lift(row.RAMV), ch.ramv_weight))
      rppa == XMul(st.running_product_for_perm_arg,
                   XSub(ch.processor_perm_indeterminate, compressed_row_for_permutation_argument))
  IN  [st EXCEPT
         !.running_product_for_perm_arg = rppa,
         !.extension_matrix = Append(@,
            [RunningProductOfRAMP |-> st.running_product_of_ramp,
             FormalDerivative |-> st.formal_derivative,
             BezoutCoefficient0 |-> st.bezout_coefficient_0,
             BezoutCoefficient1 |-> st.bezout_coefficient_1,
             AllClockJumpDifferencesPermArg |-> st.all_clock_jump_differences_running_product,
             RunningProductPermArg |-> st.running_product_for_perm_arg])]

\* The permutation argument to the Processor Table, and the extension row pushed.
PushRow(st, row, ch) ==
  LET compressed_row_for_permutation_argument ==
        XAdd(XAdd(XMul(lift(row.CLK), ch.clk_weight), XMul(lift(row.RAMP), ch.ramp_weight)),
             XMul(lift(row.RAMV), ch.ramv_weight))
      rppa == XMul(st.running_product_for_perm_arg,
                   XSub(ch.processor_perm_indeterminate, compressed_row_for_permutation_argument))
  IN  [st EXCEPT
         !.running_product_for_perm_arg = rppa,
         !.extension_matrix = Append(@,
            [RunningProductOfRAMP |-> st.running_product_of_ramp,
             FormalDerivative |-> st.formal_derivative,
             BezoutCoefficient0 |-> st.bezout_coefficient_0,
             BezoutCoefficient1 |-> st.bezout_coefficient_1,
             AllClockJumpDifferencesPermArg |-> st.all_clock_jump_differences_running_product,
             RunningProductPermArg |-> rppa])]

\* One iteration of the loop over the rows: row i (from 1) of data.
ExtendStep(st, data, i, ch) == PushRow(AfterBranch(st, data, i, ch), data[i], ch)

\* RamTable::extend: the extension rows for the rows `data` and the challenges ch.
extend(data, ch) ==
  LET st[i \in 0 .. Len(data)] ==
        IF i = 0 THEN ExtendInitial(data, ch) ELSE ExtendStep(st[i - 1], data, i, ch)
  IN  st[Len(data)].extension_matrix

\* -------------------------------------------------------- constraint set
\* The circuits evaluated on concrete rows: base-row inputs are lifted, the values
\* are extension-field elements, and a constraint holds when its value is XZero.

\* ExtRamTable::ext_initial_constraints_as_circuits on (base row, extension row).
ext_initial_constraints(row, ext, ch) ==
  LET one == XOne
      bezout_challenge == ch.bezout_relation_indeterminate
      rppa_challenge == ch.processor_perm_indeterminate
      clk == lift(row.CLK)
      ramp == lift(row.RAMP)
      ramv == lift(row.RAMV)
      bcpc0 == lift(row.BezoutCoefficientPolynomialCoefficient0)
      bcpc1 == lift(row.BezoutCoefficientPolynomialCoefficient1)
      rp == ext.RunningProductOfRAMP
      fd == ext.FormalDerivative
      bc0 == ext.BezoutCoefficient0
      bc1 == ext.BezoutCoefficient1
      rppa == ext.RunningProductPermArg
  IN  << clk,                        \* clk_is_0
         ramp,                       \* ramp_is_0
         ramv,                       \* ramv_is_0
         bcpc0,                      \* bezout_coefficient_polynomial_coefficient_0_is_0
         bc0,                        \* bezout_coefficient_0_is_0
         XSub(bc1, bcpc1),           \* bezout_coefficient_1_is_bezout_coefficient_polynomial_coefficient_1
         XSub(fd, one),              \* formal_derivative_is_1
         XSub(rp, bezout_challenge), \* running_product_polynomial_is_initialized_correctly
         XSub(rppa, rppa_challenge)  \* running_product_permutation_argument_is_initialized_correctly
      >>

\* Variant: the sum of the address difference and the next value.
ramp_diff_plus_ramv_next(ramp_diff, ramv_next) == XAdd(ramp_diff, ramv_next)

\* The circuit "the ramp does not change or the new ramv is 0".
ramp_does_not_change_or_ramv_becomes_0(ramp_diff, ramv_next) == XMul(ramp_diff, ramv_next)

\* Variant: the circuit without its clock factor.
ramp_does_not_change_or_ramv_does_not_change(ramp_changes, ramv, ramv_next, clk, clk_next) ==
  XMul(XSub(ramp_changes, XOne), XSub(ramv_next, ramv))

\* The circuit "the ramp does change or the ramv does not change or the clk
\* increases by 1".
ramp_does_not_change_or_ramv_does_not_change_or_clk_increases_by_1(ramp_changes, ramv, ramv_next, clk, clk_next) ==
  XMul(XMul(XSub(ramp_changes, XOne), XSub(ramv_next, ramv)),
       XSub(clk_next, XAdd(clk, XOne)))

\* ExtRamTable::ext_transition_constraints_as_circuits on the current and next rows.
ext_transition_constraints(row, ext, row_next, ext_next, ch) ==
  LET one == XOne
      bezout_challenge == ch.bezout_relation_indeterminate
      cjd_challenge == ch.all_clock_jump_differences_multi_perm_indeterminate
      rppa_challenge == ch.processor_perm_indeterminate
      clk_weight == ch.clk_weight
      ramp_weight == ch.ramp_weight
      ramv_weight == ch.ramv_weight
      clk == lift(row.CLK)
      ramp == lift(row.RAMP)
      ramv == lift(row.RAMV)
      iord == lift(row.InverseOfRampDifference)
      bcpc0 == lift(row.BezoutCoefficientPolynomialCoefficient0)
      bcpc1 == lift(row.BezoutCoefficientPolynomialCoefficient1)
      clk_di == lift(row.InverseOfClkDiffMinusOne)
      rp == ext.RunningProductOfRAMP
      fd == ext.FormalDerivative
      bc0 == ext.BezoutCoefficient0
      bc1 == ext.BezoutCoefficient1
      rpcjd == ext.AllClockJumpDifferencesPermArg
      rppa == ext.RunningProductPermArg
      clk_next == lift(row_next.CLK)
      ramp_next == lift(row_next.RAMP)
      ramv_next == lift(row_next.RAMV)
      bcpc0_next == lift(row_next.BezoutCoefficientPolynomialCoefficient0)
      bcpc1_next == lift(row_next.BezoutCoefficientPolynomialCoefficient1)
      rp_next == ext_next.RunningProductOfRAMP
      fd_next == ext_next.FormalDerivative
      bc0_next == ext_next.BezoutCoefficient0
      bc1_next == ext_next.BezoutCoefficient1
      rpcjd_next == ext_next.AllClockJumpDifferencesPermArg
      rppa_next == ext_next.RunningProductPermArg
      ramp_diff == XSub(ramp_next, ramp)
      ramp_changes == XMul(ramp_diff, iord)
      clkd_minus_one == XSub(XSub(clk_next, clk), one)
      iord_is_0_or_iord_is_inverse_of_ramp_diff == XMul(iord, XSub(ramp_changes, one))
      ramp_diff_is_0_or_iord_is_inverse_of_ramp_diff == XMul(ramp_diff, XSub(ramp_changes, one))
      bcbp0_only_changes_if_ramp_changes ==
        XMul(XSub(one, ramp_changes), XSub(bcpc0_next, bcpc0))
      bcbp1_only_changes_if_ramp_changes ==
        XMul(XSub(one, ramp_changes), XSub(bcpc1_next, bcpc1))
      running_product_ramp_updates_correctly ==
        XAdd(XMul(ramp_diff, XSub(rp_next, XMul(rp, XSub(bezout_challenge, ramp_next)))),
             XMul(XSub(one, ramp_changes), XSub(rp_next, rp)))
      formal_derivative_updates_correctly ==
        XAdd(XMul(ramp_diff,
                  XSub(XSub(fd_next, rp), XMul(XSub(bezout_challenge, ramp_next), fd))),
             XMul(XSub(one, ramp_changes), XSub(fd_next, fd)))
      bezout_coefficient_0_is_constructed_correctly ==
        XAdd(XMul(ramp_diff, XSub(XSub(bc0_next, XMul(bezout_challenge, bc0)), bcpc0_next)),
             XMul(XSub(one, ramp_changes), XSub(bc0_next, bc0)))
      bezout_coefficient_1_is_constructed_correctly ==
        XAdd(XMul(ramp_diff, XSub(XSub(bc1_next, XMul(bezout_challenge, bc1)), bcpc1_next)),
             XMul(XSub(one, ramp_changes), XSub(bc1_next, bc1)))
      clk_di_is_inverse_of_clkd == XMul(clk_di, clkd_minus_one)
      clk_di_is_zero_or_inverse_of_clkd == XMul(clk_di, clk_di_is_inverse_of_clkd)
      clkd_is_zero_or_inverse_of_clk_di == XMul(clkd_minus_one, clk_di_is_inverse_of_clkd)
      rpcjd_updates_correctly ==
        XAdd(XAdd(XMul(clkd_minus_one, XSub(rpcjd_next, rpcjd)),
                  XMul(XSub(one, XMul(XSub(ramp_next, ramp), iord)), XSub(rpcjd_next, rpcjd))),
             XMul(XMul(XSub(one, XMul(clkd_minus_one, clk_di)), ramp),
                  XSub(rpcjd_next, XMul(rpcjd, XSub(cjd_challenge, ramp)))))
      compressed_row_for_permutation_argument ==
        XAdd(XAdd(XMul(clk_next, clk_weight), XMul(ramp_next, ramp_weight)),
             XMul(ramv_next, ramv_weight))
      rppa_updates_correctly ==
        XSub(rppa_next, XMul(rppa, XSub(rppa_challenge, compressed_row_for_permutation_argument)))
  IN  << iord_is_0_or_iord_is_inverse_of_ramp_diff,
         ramp_diff_is_0_or_iord_is_inverse_of_ramp_diff,
         ramp_does_not_change_or_ramv_becomes_0(ramp_diff, ramv_next),
         ramp_does_not_change_or_ramv_does_not_change_or_clk_increases_by_1(
           ramp_changes, ramv, ramv_next, clk, clk_next),
         bcbp0_only_changes_if_ramp_changes,
         bcbp1_only_changes_if_ramp_changes,
         running_product_ramp_updates_correctly,
         formal_derivative_updates_correctly,
         bezout_coefficient_0_is_constructed_correctly,
         bezout_coefficient_1_is_constructed_correctly,
         clk_di_is_zero_or_inverse_of_clkd,
         clkd_is_zero_or_inverse_of_clk_di,
         rpcjd_updates_correctly,
         rppa_updates_correctly >>

\* ExtRamTable::ext_terminal_constraints_as_circuits on the extension row.
ext_terminal_constraints(ext) ==
  LET one == XOne
      rp == ext.RunningProductOfRAMP
      fd == ext.FormalDerivative
      bc0 == ext.BezoutCoefficient0
      bc1 == ext.BezoutCoefficient1
      bezout_relation_holds == XSub(XAdd(XMul(bc0, rp), XMul(bc1, fd)), one)
  IN  <<bezout_relation_holds>>

\* ------------------------------------------------ evaluating the circuits
\* The transition circuits evaluated on one pair of consecutive rows handed in by
\* the caller: the inputs CurrentBaseRow, NextBaseRow, CurrentExtRow, NextExtRow and
\* the challenges, and the values of the circuits.
VARIABLES
  air_pc,              \* "start", "evaluated"; "idle" while no circuit is evaluated
  current_base_row,
  next_base_row,
  current_ext_row,
  next_ext_row,
  circuit_challenges,
  transition_values    \* the values of the fourteen circuits, <<>> before evaluation

air_vars ==
  <<air_pc, current_base_row, next_base_row, current_ext_row, next_ext_row,
    circuit_challenges, transition_values>>

\* The clock values of the rows handed to the circuits.
ClkDomain == 0 .. MaxClk

\* Base rows: the registers from the data model's domains, the helper columns as
\* given, the Bezout coefficient columns zero.
BaseRow(clk, ramp, ramv, iord, clk_di) ==
  [CLK |-> clk, RAMP |-> ramp, RAMV |-> ramv, InverseOfRampDifference |-> iord,
   BezoutCoefficientPolynomialCoefficient0 |-> 0,
   BezoutCoefficientPolynomialCoefficient1 |-> 0,
   InverseOfClkDiffMinusOne |-> clk_di]

\* Extension rows: the clock-jump running product as given, the other columns one.
ExtRow(rpcjd) ==
  [RunningProductOfRAMP |-> XOne, FormalDerivative |-> XOne,
   BezoutCoefficient0 |-> XOne, BezoutCoefficient1 |-> XOne,
   AllClockJumpDifferencesPermArg |-> rpcjd, RunningProductPermArg |-> XOne]

\* The challenges the circuits are evaluated with.
CircuitChallenges == {ch \in RamTableChallenges : ch.bezout_relation_indeterminate = lift(3)}

AirIdle ==
  /\ air_pc = "idle"
  /\ current_base_row = ZeroRow
  /\ next_base_row = ZeroRow
  /\ current_ext_row = ExtRow(XOne)
  /\ next_ext_row = ExtRow(XOne)
  /\ circuit_challenges = NoChallenges
  /\ transition_values = <<>>

\* ---------------------------------------------------------------- simulate
\* Program::simulate (vm.rs).  The single-step transition VMState::step_mut, the
\* completion test and the register snapshot are collaborators defined outside the
\* files modelled here; they are modelled by what simulate observes of them: a step
\* fails or succeeds, a successful step returns no output, one output word or one
\* hash-coprocessor trace fragment, and the state after a step is a new state.
MaxProgram == 3
OutputWords == {5, 7}
\* The instructions, told apart by what a step on them returns.
Instructions ==
  {[op |-> o, word |-> 0] : o \in {"nop", "hash", "halt", "fail"}}
    \cup {[op |-> "write_io", word |-> w] : w \in OutputWords}
Programs == UNION {[1 .. n -> Instructions] : n \in 1 .. MaxProgram}

\* VMState::new.
VMStateNew(prog) == [instruction_pointer |-> 0, cycle_count |-> 0, halting |-> FALSE]
\* VMState::is_complete.
is_complete(st) == st.halting
\* VMState::to_processor_row: the register snapshot.
to_processor_row(st) == [CLK |-> st.cycle_count, IP |-> st.instruction_pointer]

\* The values of Option<VMOutput>.
NoOutput == [kind |-> "None", word |-> 0, hash_trace |-> <<>>]
WriteOutputSymbol(written_word) ==
  [kind |-> "WriteOutputSymbol", word |-> written_word, hash_trace |-> <<>>]
XlixTrace(hash_trace) == [kind |-> "XlixTrace", word |-> 0, hash_trace |-> hash_trace]
\* The trace fragment a hash instruction returns in the given cycle: two rows.
HashFragment(st) == <<<<st.cycle_count, 1>>, <<st.cycle_count, 2>>>>

\* The state a successful step leaves.
Advance(st) ==
  [st EXCEPT !.instruction_pointer = @ + 1, !.cycle_count = @ + 1]
\* A failed step: the error, and a state the step may have left partly updated.
StepErr(st, msg) ==
  {[result |-> "Err", err |-> msg, vm_output |-> NoOutput, state |-> after] :
     after \in {st, Advance(st)}}
StepOk(st, vm_output) ==
  {[result |-> "Ok", err |-> "", vm_output |-> vm_output, state |-> st]}

\* VMState::step_mut: the possible results of one step from state st.
step_mut(st, prog) ==
  IF st.instruction_pointer >= Len(prog)
  THEN StepErr(st, "instruction pointer out of bounds")
  ELSE LET instruction == prog[st.instruction_pointer + 1]
       IN  CASE instruction.op = "fail" -> StepErr(st, "assertion failed")
             [] instruction.op = "halt" -> StepOk([Advance(st) EXCEPT !.halting = TRUE], NoOutput)
             [] instruction.op = "write_io" ->
                  StepOk(Advance(st), WriteOutputSymbol(instruction.word))
             [] instruction.op = "hash" -> StepOk(Advance(st), XlixTrace(HashFragment(st)))
             [] OTHER -> StepOk(Advance(st), NoOutput)

\* VMState::step: the step on a copy of the state; the state st itself is left as
\* it is, and a successful step returns the copy.
step(st, prog) ==
  {IF outcome.result = "Ok" THEN outcome ELSE [outcome EXCEPT !.state = st] :
     outcome \in step_mut(st, prog)}

\* Program::run on the same program.
VARIABLES
  run_pc,            \* "idle", "start", "loop", "returned"
  states,            \* the vector of VMStates; current_state is its last element
  run_stdout,        \* the output words
  run_error,         \* the Option<anyhow::Error> returned: NoError or the message
  run_steps_invoked  \* the number of calls of step so far

run_vars == <<run_pc, states, run_stdout, run_error, run_steps_invoked>>

VARIABLES
  sim_pc,            \* "idle", "start", "loop", "returned"
  program,           \* self
  state,             \* the VMState simulate steps
  processor_matrix,  \* aet.processor_matrix, one snapshot per row
  hash_matrix,       \* aet.hash_matrix
  stdout,            \* the output words
  error,             \* the Option<anyhow::Error> returned: NoError or the message
  steps_invoked      \* the number of calls of step_mut so far

sim_vars ==
  <<sim_pc, program, state, processor_matrix, hash_matrix, stdout, error, steps_invoked,
    run_vars>>

vars == <<ram_vars, sim_vars, air_vars, pad_vars>>

NoError == "None"

\* Variant: the initial state is not recorded.
InitialProcessorMatrixEmpty(st) == <<>>

\* `aet.processor_matrix.push(state.to_processor_row())` on the new state.
InitialProcessorMatrix(st) == <<to_processor_row(st)>>

\* The row recorded after a successful step: the next, to be executed state.
RecordNext(matrix, st) == Append(matrix, to_processor_row(st))

\* Variant: the state the failed step left is recorded before returning.
MatrixOnErrRecording(matrix, st) == Append(matrix, to_processor_row(st))

\* The processor matrix returned when a step fails.
MatrixOnErr(matrix, st) == matrix

\* Variant: the written word put in front of the output.
PushOutputInFront(out, vm_output) ==
  IF vm_output.kind = "WriteOutputSymbol" THEN <<vm_output.word>> \o out ELSE out

\* The arm Some(VMOutput::WriteOutputSymbol(written_word)).
PushOutput(out, vm_output) ==
  IF vm_output.kind = "WriteOutputSymbol" THEN Append(out, vm_output.word) ELSE out

\* The arm Some(VMOutput::XlixTrace(hash_trace)).
AppendHashTrace(matrix, vm_output) ==
  IF vm_output.kind = "XlixTrace" THEN matrix \o vm_output.hash_trace ELSE matrix

\* Variant: the next state written over the current state.
PushNextStateInPlace(sts, next_state) == Append(Front(sts), next_state)

\* `states.push(next_state)`.
PushNextState(sts, next_state) == Append(sts, next_state)

\* `if let Some(VMOutput::WriteOutputSymbol(written_word)) = vm_output`.
RunPushOutput(out, vm_output) ==
  IF vm_output.kind = "WriteOutputSymbol" THEN Append(out, vm_output.word) ELSE out

\* No run call in progress.
RunIdle ==
  /\ run_pc = "idle"
  /\ states = <<>>
  /\ run_stdout = <<>>
  /\ run_error = NoError
  /\ run_steps_invoked = 0

\* No simulate call in progress: the values the simulate variables keep while the
\* RAM table is modelled.
SimIdle ==
  /\ sim_pc = "idle"
  /\ program = <<>>
  /\ state = VMStateNew(<<>>)
  /\ processor_matrix = <<>>
  /\ hash_matrix = <<>>
  /\ stdout = <<>>
  /\ error = NoError
  /\ steps_invoked = 0
  /\ RunIdle

\* ------------------------------------------------------------ the system
Init ==
  /\ pc = "start"
  /\ aet \in ProcessorTraces \cup JumpTraces
  /\ \E num_padding_rows \in 0 .. MaxPad :
       ram_table = [i \in 1 .. (Len(aet) + num_padding_rows) |-> ZeroRow]
  /\ natural_length = Len(aet)
  /\ clock_jump_differences = <<>>
  /\ challenges = NoChallenges
  /\ extension_matrix = <<>>
  /\ diagnostic = ""
  /\ SimIdle
  /\ AirIdle
  /\ PadIdle

\* fill_trace on the freshly allocated table.
FillTrace ==
  /\ pc = "start"
  /\ \E order \in IterationOrders(DOMAIN pre_processed_ram_table(aet)) :
       \E res \in {fill_trace(ram_table, aet, order)} :
           /\ ram_table' = res.table
           /\ clock_jump_differences' = res.differences
           /\ diagnostic' = res.diagnostic
           /\ pc' = IF res.diagnostic = "" THEN "filled" ELSE "fill_aborted"
  /\ UNCHANGED <<aet, natural_length, challenges, extension_matrix>>
  /\ UNCHANGED <<sim_vars, air_vars, pad_vars>>

\* pad_trace with the length of the processor trace, on the filled table.
PadTrace ==
  /\ pc = "filled"
  /\ \E res \in {pad_trace(ram_table, natural_length)} :
         /\ ram_table' = res.table
         /\ diagnostic' = res.diagnostic
         /\ pc' = IF res.diagnostic = "" THEN "padded" ELSE "pad_aborted"
  /\ UNCHANGED <<aet, natural_length, clock_jump_differences, challenges, extension_matrix>>
  /\ UNCHANGED <<sim_vars, air_vars, pad_vars>>

\* A second call of pad_trace, with the same length, on the padded table.
PadTraceAgain ==
  /\ pc = "padded"
  /\ \E res \in {pad_trace(ram_table, natural_length)} :
         /\ ram_table' = res.table
         /\ diagnostic' = res.diagnostic
         /\ pc' = IF res.diagnostic = "" THEN "padded2" ELSE "pad_aborted"
  /\ UNCHANGED <<aet, natural_length, clock_jump_differences, challenges, extension_matrix>>
  /\ UNCHANGED <<sim_vars, air_vars, pad_vars>>

\* extend on the padded table, with challenges handed in by the caller.
Extend ==
  /\ pc = "padded"
  /\ \E ch \in RamTableChallenges :
       /\ challenges' = ch
       /\ extension_matrix' = extend(fake_data(ram_table), ch)
  /\ pc' = "extended"
  /\ UNCHANGED <<aet, ram_table, natural_length, clock_jump_differences, diagnostic>>
  /\ UNCHANGED <<sim_vars, air_vars, pad_vars>>

\* pad_trace called on the table as allocated, before fill_trace, with any natural
\* length up to the table's height.
PadTraceUnfilled ==
  /\ pc = "start"
  /\ \E len \in 0 .. Len(ram_table) :
       \E res \in {pad_trace(ram_table, len)} :
         /\ natural_length' = len
         /\ ram_table' = res.table
         /\ diagnostic' = res.diagnostic
         /\ pc' = IF res.diagnostic = "" THEN "unfilled_padded" ELSE "unfilled_pad_aborted"
  /\ UNCHANGED <<aet, clock_jump_differences, challenges, extension_matrix>>
  /\ UNCHANGED <<sim_vars, air_vars, pad_vars>>

Next == FillTrace \/ PadTrace \/ PadTraceAgain \/ Extend \/ PadTraceUnfilled

Spec == Init /\ [][Next]_vars

\* No RAM table under construction: the values the RAM-table variables keep while
\* simulate is modelled.
RamIdle ==
  /\ pc = "idle"
  /\ aet = <<>>
  /\ ram_table = <<>>
  /\ natural_length = 0
  /\ clock_jump_differences = <<>>
  /\ challenges = NoChallenges
  /\ extension_matrix = <<>>
  /\ diagnostic = ""

\* simulate is called on a program.
SimInit ==
  /\ RamIdle
  /\ AirIdle
  /\ PadIdle
  /\ sim_pc = "start"
  /\ program \in Programs
  /\ state = VMStateNew(<<>>)
  /\ processor_matrix = <<>>
  /\ hash_matrix = <<>>
  /\ stdout = <<>>
  /\ error = NoError
  /\ steps_invoked = 0
  /\ RunIdle

\* The statements before the loop: the new state, its snapshot recorded.
SimulateStart ==
  /\ sim_pc = "start"
  /\ state' = VMStateNew(program)
  /\ processor_matrix' = InitialProcessorMatrix(VMStateNew(program))
  /\ hash_matrix' = <<>>
  /\ stdout' = <<>>
  /\ sim_pc' = "loop"
  /\ UNCHANGED <<program, error, steps_invoked>>
  /\ UNCHANGED <<ram_vars, air_vars, pad_vars, run_vars>>

\* One iteration of the loop whose step succeeds.
SimulateStepOk ==
  /\ sim_pc = "loop"
  /\ ~is_complete(state)
  /\ \E outcome \in step_mut(state, program) :
       /\ outcome.result = "Ok"
       /\ state' = outcome.state
       /\ hash_matrix' = AppendHashTrace(hash_matrix, outcome.vm_output)
       /\ stdout' = PushOutput(stdout, outcome.vm_output)
       /\ processor_matrix' = RecordNext(processor_matrix, outcome.state)
  /\ steps_invoked' = steps_invoked + 1
  /\ UNCHANGED <<sim_pc, program, error>>
  /\ UNCHANGED <<ram_vars, air_vars, pad_vars, run_vars>>

\* The iteration whose step fails: simulate returns the error at once.
SimulateStepErr ==
  /\ sim_pc = "loop"
  /\ ~is_complete(state)
  /\ \E outcome \in step_mut(state, program) :
       /\ outcome.result = "Err"
       /\ state' = outcome.state
       /\ error' = outcome.err
       /\ processor_matrix' = MatrixOnErr(processor_matrix, outcome.state)
  /\ steps_invoked' = steps_invoked + 1
  /\ sim_pc' = "returned"
  /\ UNCHANGED <<program, hash_matrix, stdout>>
  /\ UNCHANGED <<ram_vars, air_vars, pad_vars, run_vars>>

\* The loop ends because the state reports completion: simulate returns no error.
SimulateReturn ==
  /\ sim_pc = "loop"
  /\ is_complete(state)
  /\ error' = NoError
  /\ sim_pc' = "returned"
  /\ UNCHANGED <<program, state, processor_matrix, hash_matrix, stdout, steps_invoked>>
  /\ UNCHANGED <<ram_vars, air_vars, pad_vars, run_vars>>

SimNext == SimulateStart \/ SimulateStepOk \/ SimulateStepErr \/ SimulateReturn

SimSpec == SimInit /\ [][SimNext]_vars

\* simulate and run are called on the same program, run after simulate has returned.
RunInit ==
  /\ RamIdle
  /\ AirIdle
  /\ PadIdle
  /\ sim_pc = "start"
  /\ program \in Programs
  /\ state = VMStateNew(<<>>)
  /\ processor_matrix = <<>>
  /\ hash_matrix = <<>>
  /\ stdout = <<>>
  /\ error = NoError
  /\ steps_invoked = 0
  /\ run_pc = "start"
  /\ states = <<>>
  /\ run_stdout = <<>>
  /\ run_error = NoError
  /\ run_steps_invoked = 0

\* The statements of run before the loop.
RunStart ==
  /\ sim_pc = "returned"
  /\ run_pc = "start"
  /\ states' = <<VMStateNew(program)>>
  /\ run_stdout' = <<>>
  /\ run_pc' = "loop"
  /\ UNCHANGED <<run_error, run_steps_invoked>>
  /\ UNCHANGED <<sim_pc, program, state, processor_matrix, hash_matrix, stdout, error,
                 steps_invoked>>
  /\ UNCHANGED <<ram_vars, air_vars, pad_vars>>

\* One iteration of run's loop whose step succeeds.
RunStepOk ==
  /\ run_pc = "loop"
  /\ ~is_complete(Last(states))
  /\ \E outcome \in step(Last(states), program) :
       /\ outcome.result = "Ok"
       /\ run_stdout' = RunPushOutput(run_stdout, outcome.vm_output)
       /\ states' = PushNextState(states, outcome.state)
  /\ run_steps_invoked' = run_steps_invoked + 1
  /\ UNCHANGED <<run_pc, run_error>>
  /\ UNCHANGED <<sim_pc, program, state, processor_matrix, hash_matrix, stdout, error,
                 steps_invoked>>
  /\ UNCHANGED <<ram_vars, air_vars, pad_vars>>

\* The iteration whose step fails: run returns the states so far and the error.
RunStepErr ==
  /\ run_pc = "loop"
  /\ ~is_complete(Last(states))
  /\ \E outcome \in step(Last(states), program) :
       /\ outcome.result = "Err"
       /\ run_error' = outcome.err
  /\ run_steps_invoked' = run_steps_invoked + 1
  /\ run_pc' = "returned"
  /\ UNCHANGED <<states, run_stdout>>
  /\ UNCHANGED <<sim_pc, program, state, processor_matrix, hash_matrix, stdout, error,
                 steps_invoked>>
  /\ UNCHANGED <<ram_vars, air_vars, pad_vars>>

\* The loop ends because the current state reports completion.
RunReturn ==
  /\ run_pc = "loop"
  /\ is_complete(Last(states))
  /\ run_error' = NoError
  /\ run_pc' = "returned"
  /\ UNCHANGED <<states, run_stdout, run_steps_invoked>>
  /\ UNCHANGED <<sim_pc, program, state, processor_matrix, hash_matrix, stdout, error,
                 steps_invoked>>
  /\ UNCHANGED <<ram_vars, air_vars, pad_vars>>

RunNext == SimNext \/ RunStart \/ RunStepOk \/ RunStepErr \/ RunReturn

RunSpec == RunInit /\ [][RunNext]_vars

\* The circuits are evaluated on a pair of rows: any registers of the domains, the
\* helper columns valid (the inverse, or zero, of the address difference and of the
\* clock difference minus one) or not, the next clock-jump running product unchanged,
\* multiplied by the factor of the clock difference, or zero.
AirInit ==
  /\ RamIdle
  /\ SimIdle
  /\ PadIdle
  /\ air_pc = "start"
  /\ \E clk, clk_next \in ClkDomain, ramp, ramp_next \in RampDomain, ramv, ramv_next \in RamvDomain :
       \E iord \in {0, 1, inverse_or_zero(BSub(ramp_next, ramp))},
          clk_di \in {0, inverse_or_zero(BSub(BSub(clk_next, clk), 1))} :
            /\ current_base_row = BaseRow(clk, ramp, ramv, iord, clk_di)
            /\ next_base_row = BaseRow(clk_next, ramp_next, ramv_next, 0, 0)
  /\ circuit_challenges \in CircuitChallenges
  /\ current_ext_row = ExtRow(<<2, 1, 0>>)
  /\ \E rpcjd_next \in
          {current_ext_row.AllClockJumpDifferencesPermArg,
           XMul(current_ext_row.AllClockJumpDifferencesPermArg,
                XSub(circuit_challenges.all_clock_jump_differences_multi_perm_indeterminate,
                     lift(BSub(next_base_row.CLK, current_base_row.CLK)))),
           XZero} :
       next_ext_row = ExtRow(rpcjd_next)
  /\ transition_values = <<>>

\* The transition circuits evaluated on the pair.
EvaluateTransitionConstraints ==
  /\ air_pc = "start"
  /\ transition_values' =
       ext_transition_constraints(current_base_row, current_ext_row,
                                  next_base_row, next_ext_row, circuit_challenges)
  /\ air_pc' = "evaluated"
  /\ UNCHANGED <<current_base_row, next_base_row, current_ext_row, next_ext_row,
                 circuit_challenges>>
  /\ UNCHANGED <<ram_vars, sim_vars, pad_vars>>

AirNext == EvaluateTransitionConstraints

AirSpec == AirInit /\ [][AirNext]_vars

\* pad_trace is called on a table that fill_trace has filled.
PadInit ==
  /\ pc = "filled"
  /\ aet \in ProcessorTraces
  /\ \E num_padding_rows \in 0 .. MaxPad :
       \E order \in IterationOrders(DOMAIN pre_processed_ram_table(aet)) :
         \E res \in {fill_trace([i \in 1 .. (Len(aet) + num_padding_rows) |-> ZeroRow],
                                aet, order)} :
           /\ ram_table = res.table
           /\ clock_jump_differences = res.differences
  /\ natural_length = Len(aet)
  /\ challenges = NoChallenges
  /\ extension_matrix = <<>>
  /\ diagnostic = ""
  /\ table_before_pad = ram_table
  /\ pad_locals = NoPadLocals
  /\ unvisited = {}
  /\ writes = [idx \in 0 .. (Len(ram_table) - 1) |-> <<>>]
  /\ SimIdle
  /\ AirIdle

\* The statements before the parallel iterator: the assertions, the indices, the
\* rows below the row with the highest CLK moved to the end, the template.
PadTraceBegin ==
  /\ pc = "filled"
  /\ \E res \in {pad_trace(ram_table, natural_length)} :
       IF res.diagnostic # ""
       THEN /\ diagnostic' = res.diagnostic
            /\ pc' = "pad_aborted"
            /\ UNCHANGED <<ram_table, pad_locals, unvisited>>
       ELSE \E locals \in {PadLocals(ram_table, natural_length,
                                     Min(RowsWithClk(ram_table, natural_length - 1)))} :
              /\ ram_table' = MoveToEnd(ram_table, locals.padding_section_start,
                                        natural_length, locals.rows_to_move_dest_section_start)
              /\ pad_locals' = locals
              /\ unvisited' = PaddingSection(locals.padding_section_start,
                                             locals.padding_section_end)
              /\ pc' = "replicating"
              /\ UNCHANGED diagnostic
  /\ UNCHANGED <<aet, natural_length, clock_jump_differences, challenges, extension_matrix>>
  /\ UNCHANGED <<writes, table_before_pad>>
  /\ UNCHANGED <<sim_vars, air_vars>>

\* One worker runs the closure on one row of the padding section.
WorkerMovesTemplate ==
  /\ pc = "replicating"
  /\ \E worker \in Workers, idx \in unvisited :
       /\ ram_table' = MoveTemplateInto(ram_table, idx, pad_locals.padding_row_template)
       /\ writes' = [writes EXCEPT ![idx] = Append(@, worker)]
       /\ unvisited' = unvisited \ {idx}
  /\ UNCHANGED <<pc, aet, natural_length, clock_jump_differences, challenges,
                 extension_matrix, diagnostic>>
  /\ UNCHANGED <<pad_locals, table_before_pad>>
  /\ UNCHANGED <<sim_vars, air_vars>>

\* for_each has returned: the clocks of the padding section and its boundaries.
PadTraceEnd ==
  /\ pc = "replicating"
  /\ unvisited = {}
  /\ ram_table' =
       LowerBoundary(
         UpperBoundary(
           MoveNewClkValues(ram_table, natural_length, pad_locals.padding_section_start,
                            pad_locals.padding_section_end),
           pad_locals.max_clk_before_padding_row_idx),
         pad_locals.num_rows_to_move, pad_locals.rows_to_move_dest_section_start,
         pad_locals.ramp_difference_inverse)
  /\ pc' = "padded"
  /\ UNCHANGED <<aet, natural_length, clock_jump_differences, challenges,
                 extension_matrix, diagnostic>>
  /\ UNCHANGED pad_vars
  /\ UNCHANGED <<sim_vars, air_vars>>

PadNext == PadTraceBegin \/ WorkerMovesTemplate \/ PadTraceEnd

PadSpec == PadInit /\ [][PadNext]_vars

\* ================================================================ claims
\* Helpers of the claims' formulas.
NaturalLength == Len(aet)
PaddedHeight == Len(ram_table)
Triple(row) == [CLK |-> row.CLK, RAMP |-> row.RAMP, RAMV |-> row.RAMV]
\* Index (from 0) of the first row whose clock is NaturalLength - 1.
MaxClkRowIdx(tbl) == Min(RowsWithClk(tbl, NaturalLength - 1))
DistinctRamps == {aet[i].RAMP : i \in DOMAIN aet}

\* C1: after fill_trace the table holds exactly n filled rows (the rows past n are
\* untouched) and their (CLK, RAMP, RAMV) triples are a permutation of the trace's:
\* every source triple is in exactly one table row, every table row is a source triple.
C1_FillIsPermutation ==
  pc = "filled" =>
    /\ PaddedHeight >= NaturalLength
    /\ \A i \in 1 .. NaturalLength :
         Cardinality({j \in 1 .. NaturalLength : Triple(ram_table[j]) = aet[i]}) = 1
    /\ \A j \in 1 .. NaturalLength : \E i \in 1 .. NaturalLength : Triple(ram_table[j]) = aet[i]
    /\ \A j \in (NaturalLength + 1) .. PaddedHeight : ram_table[j] = ZeroRow

C1_Witness ==
  /\ pc = "filled"
  /\ NaturalLength = 3
  /\ Cardinality(DistinctRamps) = 2
  /\ ram_table[1].CLK = 1

\* C2: fill_trace builds a table for every trace, and in it the rows sharing an
\* address form one contiguous block: for rows i < j < k, address[i] = address[k]
\* implies address[j] = address[i].
C2_ContiguousBlocks ==
  /\ pc # "fill_aborted"
  /\ pc = "filled" =>
       \A i, j, k \in 1 .. NaturalLength :
         (i < j /\ j < k /\ ram_table[i].RAMP = ram_table[k].RAMP)
           => ram_table[j].RAMP = ram_table[i].RAMP

C2_Witness ==
  /\ pc = "filled"
  /\ NaturalLength = 3
  /\ aet[1].RAMP = aet[3].RAMP
  /\ aet[2].RAMP # aet[1].RAMP

\* The clock differences of the adjacent same-address row pairs of the first n rows
\* whose difference exceeds 1, in row order.
SameAddressJumps(tbl, n) ==
  LET acc[i \in 0 .. (n - 1)] ==
        IF i = 0 THEN <<>>
        ELSE IF tbl[i].RAMP = tbl[i + 1].RAMP /\ BSub(tbl[i + 1].CLK, tbl[i].CLK) > 1
             THEN Append(acc[i - 1], BSub(tbl[i + 1].CLK, tbl[i].CLK))
             ELSE acc[i - 1]
  IN  acc[n - 1]

\* C3: fill_trace returns exactly the list, in row order, of the clock differences
\* of the adjacent row pairs with equal addresses and a difference above 1.
C3_ReturnsSameAddressJumps ==
  pc = "filled" => clock_jump_differences = SameAddressJumps(ram_table, NaturalLength)

\* C4: on the table built by fill_trace, pad_trace and extend, each of the fourteen
\* transition constraints evaluates to zero on every adjacent row pair.
C4_TransitionConstraintsHold ==
  pc = "extended" =>
    \A i \in 1 .. (PaddedHeight - 1) :
      \A k \in 1 .. 14 :
        ext_transition_constraints(ram_table[i], extension_matrix[i],
                                   ram_table[i + 1], extension_matrix[i + 1], challenges)[k] = XZero

\* C5: on the table built by fill_trace, pad_trace and extend, every initial
\* constraint evaluates to zero on row 0 (row 0 has clock 0, address 0, value 0 and
\* stored Bezout coefficient 0 equal to 0), whatever the order of the address groups.
C5_InitialConstraintsHold ==
  pc = "extended" =>
    \A k \in 1 .. 9 :
      ext_initial_constraints(ram_table[1], extension_matrix[1], challenges)[k] = XZero

C7_NoPaddingIsIdentity ==
  [][(pc = "filled" /\ pc' = "padded" /\ PaddedHeight = NaturalLength)
       => ram_table' = ram_table]_vars

C7_Witness ==
  /\ pc = "padded"
  /\ PaddedHeight = NaturalLength
  /\ NaturalLength = 3
  /\ MaxClkRowIdx(ram_table) = 1

\* C8 as stated: a second call of pad_trace with the same natural length leaves
\* every cell of the padded table unchanged.
C8_SecondPadIsIdentity ==
  [][(pc = "padded" /\ pc' = "padded2") => ram_table' = ram_table]_vars

\* C8 amended: the second call leaves every cell unchanged when no rows lie after
\* the maximal-clock row, or when the table has no padding rows; when rows were moved
\* to the tail across a padding section, the second call changes the table.
C8_SecondPadIsIdentityWithoutMovedRows ==
  [][(pc = "padded" /\ pc' = "padded2")
       => ((ram_table' = ram_table)
             <=> (MaxClkRowIdx(ram_table) = NaturalLength - 1 \/ PaddedHeight = NaturalLength))]_vars

C8_Witness ==
  /\ pc = "padded2"
  /\ PaddedHeight = NaturalLength + 2
  /\ NaturalLength = 3
  /\ MaxClkRowIdx(ram_table) = NaturalLength - 1
  /\ Cardinality(DistinctRamps) = 2

\* C9: after pad_trace, with r the index of the row whose clock is n - 1, the rows
\* r+1 .. r+(h-n) have clocks n, n+1, .., h-1, the address, value and stored Bezout
\* coefficients of row r, and all but possibly the last have both inverse columns zero.
C9_PaddingSection ==
  pc = "padded" =>
    LET r == MaxClkRowIdx(ram_table)
        last_real == Row(ram_table, r)
    IN  \A k \in 1 .. (PaddedHeight - NaturalLength) :
          LET row == Row(ram_table, r + k)
          IN  /\ row.CLK = NaturalLength + k - 1
              /\ row.RAMP = last_real.RAMP
              /\ row.RAMV = last_real.RAMV
              /\ row.BezoutCoefficientPolynomialCoefficient0
                   = last_real.BezoutCoefficientPolynomialCoefficient0
              /\ row.BezoutCoefficientPolynomialCoefficient1
                   = last_real.BezoutCoefficientPolynomialCoefficient1
              /\ k < PaddedHeight - NaturalLength
                   => (row.InverseOfRampDifference = 0 /\ row.InverseOfClkDiffMinusOne = 0)

C9_Witness ==
  /\ pc = "padded"
  /\ PaddedHeight = NaturalLength + 2
  /\ NaturalLength = 3
  /\ MaxClkRowIdx(ram_table) = 1
  /\ Row(ram_table, 3).InverseOfRampDifference # 0

\* C10: pad_trace leaves the rows 0 .. r-1 unchanged, changes at most the two inverse
\* columns of row r, and places the rows of indices r+1 .. n-1 at r+1+(h-n) .. h-1,
\* contents and relative order kept.
C10_PadFrame ==
  [][(pc = "filled" /\ pc' = "padded")
       => LET r == MaxClkRowIdx(ram_table)
          IN  /\ \A i \in 0 .. (r - 1) : Row(ram_table', i) = Row(ram_table, i)
              /\ [Row(ram_table', r) EXCEPT !.InverseOfRampDifference = 0,
                                           !.InverseOfClkDiffMinusOne = 0]
                   = [Row(ram_table, r) EXCEPT !.InverseOfRampDifference = 0,
                                              !.InverseOfClkDiffMinusOne = 0]
              /\ \A i \in (r + 1) .. (NaturalLength - 1) :
                   Row(ram_table', i + (PaddedHeight - NaturalLength)) = Row(ram_table, i)]_vars

C10_Witness ==
  /\ pc = "padded"
  /\ NaturalLength = 3
  /\ PaddedHeight = 5
  /\ MaxClkRowIdx(ram_table) = 0
  /\ Row(ram_table, 3).RAMP = Row(ram_table, 4).RAMP

\* The two inverse columns of row i (from 0) of tbl agree with the row after it.
InversesConsistentAt(tbl, i) ==
  /\ Row(tbl, i).InverseOfRampDifference
       = inverse_or_zero(BSub(Row(tbl, i + 1).RAMP, Row(tbl, i).RAMP))
  /\ Row(tbl, i).InverseOfClkDiffMinusOne
       = inverse_or_zero(BSub(BSub(Row(tbl, i + 1).CLK, Row(tbl, i).CLK), 1))

\* C11: after pad_trace on a filled table, on every adjacent row pair (i, i+1) the
\* inverse-of-address-difference of row i is the inverse of address[i+1] - address[i]
\* (zero when equal) and the inverse-of-(clock-difference-1) is the inverse of
\* clock[i+1] - clock[i] - 1 (zero when that is zero); the row before the gap has both
\* zero when padding rows follow, and when rows were moved the last padding row's
\* address inverse is the value the maximal-clock row held before padding.
C11_PaddedInversesConsistent ==
  [][(pc = "filled" /\ pc' = "padded")
       => LET r == MaxClkRowIdx(ram_table)
              num_padding_rows == PaddedHeight - NaturalLength
          IN  /\ \A i \in 0 .. (PaddedHeight - 2) : InversesConsistentAt(ram_table', i)
              /\ num_padding_rows > 0
                   => /\ Row(ram_table', r).InverseOfRampDifference = 0
                      /\ Row(ram_table', r).InverseOfClkDiffMinusOne = 0
              /\ r < NaturalLength - 1
                   => Row(ram_table', r + num_padding_rows).InverseOfRampDifference
                        = Row(ram_table, r).InverseOfRampDifference]_vars

C11_Witness ==
  /\ pc = "padded"
  /\ NaturalLength = 3
  /\ PaddedHeight = 5
  /\ MaxClkRowIdx(ram_table) = 1
  /\ Row(ram_table, 3).InverseOfRampDifference # 0
  /\ Row(ram_table, 3).InverseOfClkDiffMinusOne # 0

\* C12: after pad_trace on a filled table, the rows sharing an address still form one
\* contiguous block of the padded table, and the clocks of the padded table are exactly
\* 0 .. h-1, each in exactly one row.
C12_PaddedBlocksAndClocks ==
  pc = "padded" =>
    /\ \A i, j, k \in 1 .. PaddedHeight :
         (i < j /\ j < k /\ ram_table[i].RAMP = ram_table[k].RAMP)
           => ram_table[j].RAMP = ram_table[i].RAMP
    /\ \A clk \in 0 .. (PaddedHeight - 1) :
         Cardinality({i \in 1 .. PaddedHeight : ram_table[i].CLK = clk}) = 1

C12_Witness ==
  /\ pc = "padded"
  /\ NaturalLength = 3
  /\ PaddedHeight = 5
  /\ MaxClkRowIdx(ram_table) = 0
  /\ Cardinality(DistinctRamps) = 3

\* C16: pad_trace aborts with a diagnostic when the natural length is 0 and when no
\* row of the table has clock natural length - 1; in a table built by fill_trace
\* exactly one of the n rows has clock n - 1, it is the row pad_trace finds, and
\* pad_trace with natural length n (at most the height) does not abort.
C16_PadAbortsOnlyOnBadInput ==
  /\ pc \in {"unfilled_padded", "unfilled_pad_aborted"} =>
       /\ natural_length = 0 =>
            /\ pc = "unfilled_pad_aborted"
            /\ diagnostic = "Processor Table must have at least 1 row."
       /\ (natural_length > 0 /\ RowsWithClk(ram_table, natural_length - 1) = {}) =>
            /\ pc = "unfilled_pad_aborted"
            /\ diagnostic = "Ram Table must contain row with clock cycle equal to max cycle."
  /\ pc = "filled" =>
       /\ Cardinality({i \in 0 .. (NaturalLength - 1) :
                         Row(ram_table, i).CLK = NaturalLength - 1}) = 1
       /\ MaxClkRowIdx(ram_table) < NaturalLength
  /\ pc # "pad_aborted"

C16_Witness ==
  /\ pc = "unfilled_pad_aborted"
  /\ natural_length = 2
  /\ PaddedHeight >= 3
  /\ diagnostic = "Ram Table must contain row with clock cycle equal to max cycle."

\* The clocks of the rows of q whose address is ramp, in q's order.
ClocksAt(q, ramp) ==
  LET rows == SelectSeq(q, LAMBDA row : row.RAMP = ramp)
  IN  [i \in 1 .. Len(rows) |-> rows[i].CLK]

\* C17: in the filled table, within every address block the clocks strictly increase
\* from row to row and are exactly the clocks at which the trace accessed that
\* address, in the trace's order.
C17_BlockClocksInTraceOrder ==
  pc = "filled" =>
    /\ \A ramp \in DistinctRamps :
         ClocksAt(SubSeq(ram_table, 1, NaturalLength), ramp) = ClocksAt(aet, ramp)
    /\ \A i \in 1 .. (NaturalLength - 1) :
         ram_table[i].RAMP = ram_table[i + 1].RAMP => ram_table[i].CLK < ram_table[i + 1].CLK

C17_Witness ==
  /\ pc = "filled"
  /\ NaturalLength = 3
  /\ aet[1].RAMP = aet[3].RAMP
  /\ aet[2].RAMP # aet[1].RAMP
  /\ ram_table[1].CLK = 1
  /\ ram_table[3].CLK = 2

\* The number of address changes between consecutive rows before row i (from 1):
\* the index, from 0, of the address block of row i.
BlockIndex(tbl, i) == Cardinality({j \in 1 .. (i - 1) : tbl[j].RAMP # tbl[j + 1].RAMP})

\* The two zero-padded coefficient vectors of the Bezout relation of the trace's
\* addresses.
ExpectedCoefficients ==
  LET d == Cardinality(DistinctRamps)
      relation == BezoutRelation(polynomial_with_ramps_as_roots(
                    CHOOSE order \in IterationOrders(DistinctRamps) : TRUE))
  IN  <<Resize(relation[2], d), Resize(relation[3], d)>>

C19_FilledInverses ==
  [][(pc = "start" /\ pc' = "filled")
       => /\ \A i \in 0 .. (NaturalLength - 2) :
               LET row == Row(ram_table', i)
                   ramp_diff == BSub(Row(ram_table', i + 1).RAMP, row.RAMP)
                   clk_diff_minus_1 == BSub(BSub(Row(ram_table', i + 1).CLK, row.CLK), 1)
               IN  /\ IF ramp_diff = 0 THEN row.InverseOfRampDifference = 0
                      ELSE BMul(row.InverseOfRampDifference, ramp_diff) = 1
                   /\ IF clk_diff_minus_1 = 0 THEN row.InverseOfClkDiffMinusOne = 0
                      ELSE BMul(row.InverseOfClkDiffMinusOne, clk_diff_minus_1) = 1
          /\ Row(ram_table', NaturalLength - 1).InverseOfRampDifference
               = Row(ram_table, NaturalLength - 1).InverseOfRampDifference
          /\ Row(ram_table', NaturalLength - 1).InverseOfClkDiffMinusOne
               = Row(ram_table, NaturalLength - 1).InverseOfClkDiffMinusOne]_vars

C19_Witness ==
  /\ pc = "filled"
  /\ NaturalLength = 3
  /\ ram_table[1].RAMP = ram_table[2].RAMP
  /\ ram_table[2].CLK = 2
  /\ ram_table[3].CLK = 1
  /\ ram_table[1].InverseOfClkDiffMinusOne = 1
  /\ ram_table[2].InverseOfClkDiffMinusOne # 0

OkOutcomes(st, prog) == {o \in step_mut(st, prog) : o.result = "Ok"}
\* The states of the program's run by successive steps: ReferenceRun(prog)[i] is the
\* state after i successful steps.
ReferenceRun(prog) ==
  LET run[i \in 0 .. (Len(prog) + 1)] ==
        IF i = 0 THEN VMStateNew(prog)
        ELSE IF OkOutcomes(run[i - 1], prog) = {} THEN run[i - 1]
        ELSE (CHOOSE o \in OkOutcomes(run[i - 1], prog) : TRUE).state
  IN  run
\* The output of the i-th step (from 1) of the run.
ReferenceOutput(prog, i) ==
  (CHOOSE o \in OkOutcomes(ReferenceRun(prog)[i - 1], prog) : TRUE).vm_output
\* The i-th step (from 1) of the run fails.
StepFails(prog, i) == OkOutcomes(ReferenceRun(prog)[i - 1], prog) = {}
FirstFailingStep(prog) == Min({i \in 1 .. (Len(prog) + 1) : StepFails(prog, i)})
\* The words written, and the hash-trace fragments returned, by the first k steps.
WordsWritten(prog, k) ==
  LET acc[i \in 0 .. k] ==
        IF i = 0 THEN <<>>
        ELSE IF ReferenceOutput(prog, i).kind = "WriteOutputSymbol"
             THEN Append(acc[i - 1], ReferenceOutput(prog, i).word) ELSE acc[i - 1]
  IN  acc[k]
FragmentsReturned(prog, k) ==
  LET acc[i \in 0 .. k] ==
        IF i = 0 THEN <<>>
        ELSE IF ReferenceOutput(prog, i).kind = "XlixTrace"
             THEN acc[i - 1] \o ReferenceOutput(prog, i).hash_trace ELSE acc[i - 1]
  IN  acc[k]
\* The number of successful steps so far.
SuccessfulSteps == IF error # NoError THEN steps_invoked - 1 ELSE steps_invoked

\* C13: if the first failing step is the (k+1)-th step invoked, simulate returns that
\* error with a processor trace of exactly k+1 rows (the initial state and the state
\* after each of the k successful steps) and the output words of those k steps, and
\* the failing step is the last one invoked.
C13_FailureReturnsPartialTrace ==
  (sim_pc = "returned" /\ error # NoError) =>
    LET k == FirstFailingStep(program) - 1
    IN  /\ steps_invoked = k + 1
        /\ \A o \in step_mut(ReferenceRun(program)[k], program) : error = o.err
        /\ Len(processor_matrix) = k + 1
        /\ \A i \in 0 .. k : processor_matrix[i + 1] = to_processor_row(ReferenceRun(program)[i])
        /\ stdout = WordsWritten(program, k)

C13_Witness ==
  /\ sim_pc = "returned"
  /\ error = "assertion failed"
  /\ steps_invoked = 3
  /\ Len(stdout) = 1
  /\ state.cycle_count = 3

\* C14: row 0 of the processor trace is the snapshot of the initial state; whenever a
\* step is about to be invoked the snapshot of the current state is the last row; a run
\* completing after n successful steps returns n+1 rows and no error; and simulate
\* returns without error only when the state reports completion.
C14_SnapshotBeforeEachStep ==
  /\ sim_pc \in {"loop", "returned"} =>
       /\ Len(processor_matrix) >= 1
       /\ Head(processor_matrix) = to_processor_row(VMStateNew(program))
  /\ sim_pc = "loop" =>
       /\ Len(processor_matrix) = steps_invoked + 1
       /\ processor_matrix[Len(processor_matrix)] = to_processor_row(state)
  /\ (sim_pc = "returned" /\ error = NoError) =>
       /\ is_complete(state)
       /\ Len(processor_matrix) = steps_invoked + 1

C14_Witness ==
  /\ sim_pc = "returned"
  /\ error = NoError
  /\ steps_invoked = 3
  /\ Len(processor_matrix) = 4

\* C15: the output stream is exactly the sequence of words written by the successful
\* steps, in step order, and the hash trace is the concatenation, in step order, of the
\* fragments those steps returned; a step returning no side output changes neither.
C15_OutputsInStepOrder ==
  sim_pc \in {"loop", "returned"} =>
    /\ stdout = WordsWritten(program, SuccessfulSteps)
    /\ hash_matrix = FragmentsReturned(program, SuccessfulSteps)

C15_Witness ==
  /\ sim_pc = "returned"
  /\ error = NoError
  /\ stdout = <<7>>
  /\ hash_matrix = <<<<1, 1>>, <<1, 2>>>>
  /\ Len(processor_matrix) = 4

\* The addresses of the blocks begun in rows 1 .. i of tbl, in row order.
BlockAddresses(tbl, i) ==
  LET acc[j \in 0 .. i] ==
        IF j = 0 THEN <<>>
        ELSE IF j = 1 \/ tbl[j].RAMP # tbl[j - 1].RAMP
             THEN Append(acc[j - 1], tbl[j].RAMP)
             ELSE acc[j - 1]
  IN  acc[i]

\* The product of (indeterminate - a) over the addresses of as, the one at index
\* skip left out (skip = 0 leaves none out).
ProductOfRoots(as, indeterminate, skip) ==
  LET prod[k \in 0 .. Len(as)] ==
        IF k = 0 THEN XOne
        ELSE IF k = skip THEN prod[k - 1]
             ELSE XMul(prod[k - 1], XSub(indeterminate, lift(as[k])))
  IN  prod[Len(as)]

\* The sum, over the addresses a of as, of the product of (indeterminate - b) over
\* the other addresses b.
DerivativeOfRoots(as, indeterminate) ==
  LET sum[k \in 0 .. Len(as)] ==
        IF k = 0 THEN XZero
        ELSE XAdd(sum[k - 1], ProductOfRoots(as, indeterminate, k))
  IN  sum[Len(as)]

FoldingPairs(tbl) ==
  {i \in 1 .. (Len(tbl) - 1) :
     tbl[i + 1].RAMP = tbl[i].RAMP /\ BSub(tbl[i + 1].CLK, tbl[i].CLK) # 1}

PermArgFactor(row, ch) ==
  XSub(ch.processor_perm_indeterminate,
       XAdd(XAdd(XMul(lift(row.CLK), ch.clk_weight), XMul(lift(row.RAMP), ch.ramp_weight)),
            XMul(lift(row.RAMV), ch.ramv_weight)))

\* The product of the rows' factors, taken over the rows of `rows` in their order.
PermArgProduct(rows, ch) ==
  LET prod[k \in 0 .. Len(rows)] ==
        IF k = 0 THEN PermArgDefaultInitial
        ELSE XMul(prod[k - 1], PermArgFactor(rows[k], ch))
  IN  prod[Len(rows)]

IordValid ==
  current_base_row.InverseOfRampDifference
    = inverse_or_zero(BSub(next_base_row.RAMP, current_base_row.RAMP))
\* The pair's inverse-of-clock-difference-minus-one helper is the inverse of the
\* clock difference minus one, or zero when the clock step is 1.
ClkDiValid ==
  current_base_row.InverseOfClkDiffMinusOne
    = inverse_or_zero(BSub(BSub(next_base_row.CLK, current_base_row.CLK), 1))
AddressChanged == next_base_row.RAMP # current_base_row.RAMP
ValueChanged == next_base_row.RAMV # current_base_row.RAMV
ClockStep == BSub(next_base_row.CLK, current_base_row.CLK)

\* C24: on a row pair whose inverse-of-address-difference helper is valid, the
\* value-persistence circuit (the fourth of the transition circuits) evaluates to
\* zero if and only if the address changed, or the next value equals the current
\* value, or the next clock is the current clock plus 1; so with an unchanged address
\* a changed value is accepted only on a clock step of exactly 1.
C24_ValuePersistence ==
  (air_pc = "evaluated" /\ IordValid) =>
    /\ transition_values[4] = XZero <=> (AddressChanged \/ ~ValueChanged \/ ClockStep = 1)
    /\ (~AddressChanged /\ ValueChanged /\ transition_values[4] = XZero) => ClockStep = 1

C24_Witness ==
  /\ air_pc = "evaluated"
  /\ IordValid
  /\ ~AddressChanged
  /\ ValueChanged
  /\ ClockStep = 1
  /\ current_base_row.RAMP = 3
  /\ transition_values[4] = XZero

ProductUnchanged ==
  next_ext_row.AllClockJumpDifferencesPermArg = current_ext_row.AllClockJumpDifferencesPermArg
\* The next clock-jump running product is the current one times
\* (indeterminate - clock difference).
ProductFolded ==
  next_ext_row.AllClockJumpDifferencesPermArg =
    XMul(current_ext_row.AllClockJumpDifferencesPermArg,
         XSub(circuit_challenges.all_clock_jump_differences_multi_perm_indeterminate,
              lift(ClockStep)))

\* C25: on a row pair with valid helper columns and any address, the clock-jump
\* running-product circuit (the thirteenth of the transition circuits) evaluates to
\* zero when the next product equals the current product and the clock step is 1,
\* and when the next product equals the current product and the address changed;
\* when the address is unchanged and the clock step exceeds 1 it evaluates to zero
\* when the next product is the current product times the folded factor.
C25_ClockJumpRelation ==
  (air_pc = "evaluated" /\ IordValid /\ ClkDiValid) =>
    /\ (ProductUnchanged /\ ClockStep = 1) => transition_values[13] = XZero
    /\ (ProductUnchanged /\ AddressChanged) => transition_values[13] = XZero
    /\ (~AddressChanged /\ ClockStep > 1 /\ ProductFolded) => transition_values[13] = XZero

\* The rows (from 0) of the padding section of the table being padded.
PaddingSectionRows ==
  (pad_locals.max_clk_before_padding_row_idx + 1)
    .. (pad_locals.max_clk_before_padding_row_idx + PaddedHeight - natural_length)

\* C26: the parallel replication of the padding-row template writes every row of the
\* padding section exactly once, by one worker, and no row outside the padding
\* section; the table after pad_trace is the same for every interleaving of the
\* workers (it is the table the sequential pad_trace computes).
C26_EachPaddingRowWrittenOnce ==
  /\ pc \in {"replicating", "padded"} =>
       \A idx \in 0 .. (PaddedHeight - 1) :
         /\ Len(writes[idx]) <= 1
         /\ idx \notin PaddingSectionRows => writes[idx] = <<>>
         /\ (idx \in PaddingSectionRows /\ idx \notin unvisited) => Len(writes[idx]) = 1
  /\ pc = "padded" =>
       /\ \A idx \in PaddingSectionRows : Len(writes[idx]) = 1
       /\ ram_table = pad_trace(table_before_pad, natural_length).table

C26_Witness ==
  /\ pc = "padded"
  /\ PaddedHeight = natural_length + 2
  /\ pad_locals.num_rows_to_move > 0
  /\ writes[pad_locals.padding_section_start] = <<2>>
  /\ writes[pad_locals.padding_section_start + 1] = <<1>>

\* C27: two executions of fill_trace on the same trace produce the same table and the
\* same clock-jump list: whatever order the address grouping is iterated in by
\* another execution on the same trace and the same freshly allocated table, its
\* table and its list are those of this execution.
C27_FillIsDeterministic ==
  pc = "filled" =>
    \A order \in IterationOrders(DOMAIN pre_processed_ram_table(aet)) :
      LET other == fill_trace([i \in 1 .. PaddedHeight |-> ZeroRow], aet, order)
      IN  /\ other.table = ram_table
          /\ other.differences = clock_jump_differences

\* C28: for the same program, run and simulate return the same output stream and the
\* same error outcome (none, or the same error at the same step), run returns as many
\* states as simulate returns processor rows, and row i is the snapshot of state i.
C28_RunMatchesSimulate ==
  (sim_pc = "returned" /\ run_pc = "returned") =>
    /\ run_stdout = stdout
    /\ run_error = error
    /\ run_steps_invoked = steps_invoked
    /\ Len(states) = Len(processor_matrix)
    /\ \A i \in 1 .. Len(states) : processor_matrix[i] = to_processor_row(states[i])

C28_Witness ==
  /\ sim_pc = "returned"
  /\ run_pc = "returned"
  /\ Len(program) = 3
  /\ program[1].op = "write_io"
  /\ program[2].op = "hash"
  /\ program[3].op = "fail"
  /\ run_error = "assertion failed"
  /\ Len(states) = 3

\* The number of entries of the sequence q equal to d.
Occurrences(q, d) == Cardinality({k \in DOMAIN q : q[k] = d})
\* The number of clock differences equal to d that extend folds into the clock-jump
\* running product over tbl.
FoldedOccurrences(tbl, d) ==
  Cardinality({i \in FoldingPairs(tbl) : BSub(tbl[i + 1].CLK, tbl[i].CLK) = d})

\* C29: the multiset of clock-jump magnitudes returned by fill_trace equals the
\* multiset of clock differences that extend folds into the clock-jump running
\* product over the same table without padding rows.
C29_JumpMultisetsAgree ==
  (pc = "extended" /\ PaddedHeight = NaturalLength) =>
    \A d \in BField :
      Occurrences(clock_jump_differences, d) = FoldedOccurrences(ram_table, d)

\* The value of the third transition circuit on rows i, i+1 (from 1) of tbl; the
\* circuit reads base columns only.
RamvBecomesZeroValue(tbl, i, ch) ==
  ext_transition_constraints(tbl[i], ExtRow(XOne), tbl[i + 1], ExtRow(XOne), ch)[3]

\* (address' - address) * value' on rows i, i+1 (from 1) of tbl.
AddressDifferenceTimesNextValue(tbl, i) ==
  XMul(lift(BSub(tbl[i + 1].RAMP, tbl[i].RAMP)), lift(tbl[i + 1].RAMV))

\* C30: the third transition circuit is (address' - address) * value': it evaluates
\* to zero if and only if the address is unchanged or the next row's value is 0; a
\* table built by fill_trace satisfies it on every adjacent pair exactly when the
\* first row of every address block after the first has value 0, and fill_trace
\* copies the values from the trace as they are.
C30_NewBlockStartsWithZero ==
  pc = "filled" =>
    /\ \A i \in 1 .. (NaturalLength - 1) :
         /\ RamvBecomesZeroValue(ram_table, i, CHOOSE ch \in CircuitChallenges : TRUE)
              = AddressDifferenceTimesNextValue(ram_table, i)
         /\ AddressDifferenceTimesNextValue(ram_table, i) = XZero
              <=> (ram_table[i + 1].RAMP = ram_table[i].RAMP \/ ram_table[i + 1].RAMV = 0)
    /\ (\A i \in 1 .. (NaturalLength - 1) :
          AddressDifferenceTimesNextValue(ram_table, i) = XZero)
         <=> (\A i \in 2 .. NaturalLength :
                ram_table[i].RAMP # ram_table[i - 1].RAMP => ram_table[i].RAMV = 0)
    /\ \A i \in 1 .. NaturalLength :
         \E j \in 1 .. NaturalLength :
           /\ aet[j].CLK = ram_table[i].CLK
           /\ aet[j].RAMP = ram_table[i].RAMP
           /\ aet[j].RAMV = ram_table[i].RAMV

C30_Witness ==
  /\ pc = "filled"
  /\ NaturalLength = 3
  /\ ram_table[2].RAMP # ram_table[1].RAMP
  /\ ram_table[2].RAMV = 2
  /\ ram_table[3].RAMP = ram_table[2].RAMP
  /\ RamvBecomesZeroValue(ram_table, 1, CHOOSE ch \in CircuitChallenges : TRUE) # XZero

====
